---- MODULE Spec2Model ----
(***************************************************************************)
(* A model of cflip: the configuration store (TOMLManagerV2 / CFLIPConfig), *)
(* the settings generator, the snapshot manager and the provider switch.   *)
(***************************************************************************)
EXTENDS Integers, Sequences, FiniteSets, TLC

VARIABLES
    cfg,        \* the in-memory *CFLIPConfig of the running invocation
    cfgFile,    \* ~/.cflip/config.toml as whole calls see it: absent, or its tables
    last,       \* what the last configuration operation was given and returned
    steps,      \* operations performed so far; also the reading of time.Now()
    fsDir,      \* ~/.cflip as the kernel keeps it: file name -> inode (0: no entry)
    fsData,     \* inode -> the content written so far
    wr,         \* each invocation running SaveConfig step by step
    latest,     \* the invocation whose SaveConfig began last
    settingsFile,   \* ~/.claude/settings.json: absent, unparseable, or a JSON object
    snapshots,      \* ~/.claude/snapshots: the files in it, by name
    clock,          \* time.Now() in whole seconds
    lastSet,        \* what the last two settings operations were given and returned
    sw,             \* the invocation of `cflip switch`: where it stands, what it has done
    configFile,     \* ~/.cflip/config.toml as config.LoadConfig / config.SaveConfig keep it
    backups,        \* ~/.claude/backups: the files in it, by timestamp
    bk,             \* `cflip backup`: the time zone, the last call, the ids handed out
    ob              \* the invocation of `cflip onboard`: where it stands, what was chosen

cfgVars == <<cfg, cfgFile, last, steps, ob>>

saveVars == <<fsDir, fsData, wr, latest>>

setVars == <<settingsFile, snapshots, clock, lastSet>>

swVars == <<sw, configFile, backups, bk>>

vars == <<cfgVars, saveVars, setVars, swVars>>

----------------------------------------------------------------------------
(* Bounds *)

MaxOps == 3

----------------------------------------------------------------------------
(* Small helpers on Go maps (functions with a finite domain) *)

EmptyMap == <<>>

\* a nil *CFLIPConfig
NilCfg == [nil |-> TRUE]

\* a path of the file system: no file, or a file with its content
AbsentFile == [exists |-> FALSE, doc |-> <<>>]
FileOf(doc) == [exists |-> TRUE, doc |-> doc]

Put(f, k, v) == [x \in (DOMAIN f) \cup {k} |-> IF x = k THEN v ELSE f[x]]

Range(s) == {s[i] : i \in DOMAIN s}

----------------------------------------------------------------------------
(* internal/config/cflip_config.go : types and the default configuration *)

AuthMethodAPIKey == "api_key"
AuthMethodSubscription == "subscription"

Categories == {"haiku", "sonnet", "opus", "custom"}

ModelConfig(id, provider, category) ==
    [id |-> id, name |-> id, provider |-> provider, category |-> category]

ProviderAuthConfig(method, baseURL, authHeader) ==
    [method |-> method, apiKey |-> <<>>, baseURL |-> baseURL,
     authHeader |-> authHeader, timeoutSeconds |-> 300]

ProviderInfo(name, auth, models, envVars) ==
    [name |-> name, auth |-> auth, models |-> models, envVars |-> envVars]

DefaultModels ==
    [id \in {"claude-3-5-haiku-20241022", "claude-3-5-sonnet-20241022",
             "claude-3-opus-20240229", "glm-4.5-air", "glm-4.6",
             "claude-code-default"} |->
        CASE id = "claude-3-5-haiku-20241022" -> ModelConfig(id, "anthropic", "haiku")
          [] id = "claude-3-5-sonnet-20241022" -> ModelConfig(id, "anthropic", "sonnet")
          [] id = "claude-3-opus-20240229" -> ModelConfig(id, "anthropic", "opus")
          [] id = "glm-4.5-air" -> ModelConfig(id, "glm", "haiku")
          [] id = "glm-4.6" -> ModelConfig(id, "glm", "sonnet")
          [] id = "claude-code-default" -> ModelConfig(id, "claude-code", "sonnet")]

DefaultProviders ==
    [p \in {"anthropic", "claude-code", "glm"} |->
        CASE p = "anthropic" ->
               ProviderInfo(p,
                   ProviderAuthConfig(AuthMethodAPIKey, "https://api.anthropic.com", "x-api-key"),
                   <<"claude-3-5-haiku-20241022", "claude-3-5-sonnet-20241022",
                     "claude-3-opus-20240229">>,
                   [k \in {"API_TIMEOUT_MS"} |-> "3000000"])
          [] p = "claude-code" ->
               ProviderInfo(p,
                   ProviderAuthConfig(AuthMethodSubscription, "", ""),
                   <<"claude-code-default">>,
                   EmptyMap)
          [] p = "glm" ->
               ProviderInfo(p,
                   ProviderAuthConfig(AuthMethodAPIKey, "https://api.z.ai/api/anthropic", "authorization"),
                   <<"glm-4.5-air", "glm-4.6">>,
                   [k \in {"API_TIMEOUT_MS"} |-> "3000000"])]

DefaultMapping ==
    [c \in {"haiku", "sonnet", "opus"} |->
        CASE c = "haiku" -> "claude-3-5-haiku-20241022"
          [] c = "sonnet" -> "claude-3-5-sonnet-20241022"
          [] c = "opus" -> "claude-3-opus-20240229"]

\* NewCFLIPConfig, created at time `now`
NewCFLIPConfig(now) ==
    [updatedAt |-> now,
     models |-> DefaultModels,
     providers |-> DefaultProviders,
     active |-> [provider |-> "anthropic", modelMapping |-> DefaultMapping],
     settings |-> [secureStorage |-> TRUE]]

----------------------------------------------------------------------------
(* internal/config/cflip_config.go : methods of CFLIPConfig *)

\* the loop when the first model of a category is the one that stays
RECURSIVE MapModelsFirstWins(_, _, _)
MapModelsFirstWins(models, mapping, ids) ==
    IF ids = <<>> THEN mapping
    ELSE LET id == Head(ids)
             later == MapModelsFirstWins(models, mapping, Tail(ids))
         IN  IF id \in DOMAIN models THEN Put(later, models[id].category, id) ELSE later

\* the loop of SetActiveProvider over provider.Models, in slice order
RECURSIVE MapModelsByCategory(_, _, _)
MapModelsByCategory(models, mapping, ids) ==
    IF ids = <<>> THEN mapping
    ELSE LET id == Head(ids)
             next == IF id \in DOMAIN models
                     THEN Put(mapping, models[id].category, id)
                     ELSE mapping
         IN  MapModelsByCategory(models, next, Tail(ids))

\* SetActiveProvider taking the mapping for settled when the provider is the
\* active one already, and dropping the entries it would have written
SetActiveProviderSettled(c, providerName, now) ==
    IF providerName \notin DOMAIN c.providers
    THEN [ok |-> FALSE, err |-> "provider not found", cfg |-> c]
    ELSE [ok |-> TRUE, err |-> "",
          cfg |-> [c EXCEPT !.active =
                     [provider |-> providerName,
                      modelMapping |->
                          IF c.active.provider = providerName THEN EmptyMap
                          ELSE MapModelsByCategory(c.models, c.active.modelMapping,
                                                   c.providers[providerName].models)]]]

\* CFLIPConfig.SetActiveProvider: [ok, cfg]
SetActiveProvider(c, providerName, now) ==
    IF providerName \notin DOMAIN c.providers
    THEN [ok |-> FALSE, err |-> "provider not found", cfg |-> c]
    ELSE [ok |-> TRUE, err |-> "",
          cfg |-> [c EXCEPT !.active =
                     [provider |-> providerName,
                      modelMapping |->
                          MapModelsByCategory(c.models, c.active.modelMapping,
                                              c.providers[providerName].models)]]]

\* SetActiveModel assigning the entry before it looks at the category
SetActiveModelAssignFirst(c, category, modelID, now) ==
    IF modelID \notin DOMAIN c.models
    THEN [ok |-> FALSE, err |-> "model not found", cfg |-> c]
    ELSE IF c.models[modelID].category # category
    THEN [ok |-> FALSE, err |-> "model is not in category",
          cfg |-> [c EXCEPT !.active.modelMapping = Put(@, category, modelID)]]
    ELSE [ok |-> TRUE, err |-> "",
          cfg |-> [c EXCEPT !.active.modelMapping = Put(@, category, modelID),
                            !.updatedAt = now]]

\* SetActiveModel assigning whatever it is given
SetActiveModelUnchecked(c, category, modelID, now) ==
    [ok |-> TRUE, err |-> "",
     cfg |-> [c EXCEPT !.active.modelMapping = Put(@, category, modelID),
                       !.updatedAt = now]]

\* CFLIPConfig.SetActiveModel: [ok, cfg]
SetActiveModel(c, category, modelID, now) ==
    IF modelID \notin DOMAIN c.models
    THEN [ok |-> FALSE, err |-> "model not found", cfg |-> c]
    ELSE IF c.models[modelID].category # category
    THEN [ok |-> FALSE, err |-> "model is not in category", cfg |-> c]
    ELSE [ok |-> TRUE, err |-> "",
          cfg |-> [c EXCEPT !.active.modelMapping = Put(@, category, modelID),
                            !.updatedAt = now]]

\* validateProvider: the error it returns for one provider, "" when none
validateProvider(c, provider) ==
    IF provider.name = "" THEN "provider name cannot be empty"
    ELSE IF provider.auth.method = AuthMethodAPIKey /\ provider.auth.baseURL = ""
    THEN "base URL is required for API key authentication"
    ELSE IF provider.auth.method = AuthMethodAPIKey /\ provider.auth.authHeader = ""
    THEN "auth header is required for API key authentication"
    ELSE IF \E i \in DOMAIN provider.models : provider.models[i] \notin DOMAIN c.models
    THEN "references non-existent model"
    ELSE ""

\* validateModel: the error it returns for one model, "" when none
validateModel(c, model) ==
    IF model.id = "" THEN "model ID cannot be empty"
    ELSE IF model.name = "" THEN "model name cannot be empty"
    ELSE IF model.provider = "" THEN "model provider cannot be empty"
    ELSE IF model.category = "" THEN "model category cannot be empty"
    ELSE IF model.provider \notin DOMAIN c.providers THEN "provider does not exist"
    ELSE ""

\* Validate looking at the active provider after everything else
ValidateActiveLast(c) ==
    LET perr == {validateProvider(c, c.providers[n]) : n \in DOMAIN c.providers} \ {""}
        merr == {validateModel(c, c.models[i]) : i \in DOMAIN c.models} \ {""}
        aerr == IF \E k \in DOMAIN c.active.modelMapping :
                      c.active.modelMapping[k] \notin DOMAIN c.models
                THEN {"active model mapping: model not found"} ELSE {}
    IN  IF perr # {} THEN perr
        ELSE IF merr # {} THEN merr
        ELSE IF aerr # {} THEN aerr
        ELSE IF c.active.provider \notin DOMAIN c.providers
        THEN {"invalid active provider"}
        ELSE {""}

\* CFLIPConfig.Validate: the errors a call may return ({""} when it accepts).
\* The checks run in the order of the code; within one check Go ranges over a
\* map in no fixed order, so any failing entry may be the one reported.
Validate(c) ==
    IF c.active.provider \notin DOMAIN c.providers
    THEN {"invalid active provider"}
    ELSE LET perr == {validateProvider(c, c.providers[n]) : n \in DOMAIN c.providers} \ {""}
             merr == {validateModel(c, c.models[i]) : i \in DOMAIN c.models} \ {""}
             aerr == IF \E k \in DOMAIN c.active.modelMapping :
                           c.active.modelMapping[k] \notin DOMAIN c.models
                     THEN {"active model mapping: model not found"} ELSE {}
         IN  IF perr # {} THEN perr
             ELSE IF merr # {} THEN merr
             ELSE IF aerr # {} THEN aerr
             ELSE {""}

Valid(c) == Validate(c) = {""}

----------------------------------------------------------------------------
(* internal/config/toml_manager.go : obfuscation of stored secrets.         *)
(* A secret is a sequence of characters; the literal "encrypted:" and the   *)
(* 32-byte SHA3 digest each count as one element of the stored string.      *)

EncryptedPrefix == "encrypted:"

KeyPrefixLen == 8

HasPrefixEncrypted(s) == Len(s) >= 1 /\ s[1] = EncryptedPrefix

\* sha3.New256 over key and the salt "cflip-salt-v2": a digest, not the key
Sha3Salted(key) == [sha3 |-> key, salt |-> "cflip-salt-v2"]

\* obfuscateAPIKey
obfuscateAPIKey(key) ==
    IF Len(key) > KeyPrefixLen
    THEN <<EncryptedPrefix, Sha3Salted(key), ":">> \o SubSeq(key, 1, KeyPrefixLen)
    ELSE <<EncryptedPrefix, Sha3Salted(key), ":">>

\* deobfuscateAPIKey
deobfuscateAPIKey(obfuscated) ==
    IF HasPrefixEncrypted(obfuscated) THEN <<>> ELSE obfuscated

\* encryptAPIKeys
encryptAPIKeys(c) ==
    [c EXCEPT !.providers =
        [n \in DOMAIN c.providers |->
            IF c.providers[n].auth.method = AuthMethodAPIKey /\ c.providers[n].auth.apiKey # <<>>
            THEN [c.providers[n] EXCEPT !.auth.apiKey = obfuscateAPIKey(@)]
            ELSE c.providers[n]]]

\* decryptAPIKeys
decryptAPIKeys(c) ==
    [c EXCEPT !.providers =
        [n \in DOMAIN c.providers |->
            IF c.providers[n].auth.method = AuthMethodAPIKey /\ c.providers[n].auth.apiKey # <<>>
            THEN [c.providers[n] EXCEPT !.auth.apiKey = deobfuscateAPIKey(@)]
            ELSE c.providers[n]]]

----------------------------------------------------------------------------
(* The TOML document: a sequence of tables in the order the encoder writes  *)
(* them (root keys, then [models.*], [providers.*] with map keys sorted,    *)
(* then [active] and [settings]).  Fields tagged omitempty are left out of  *)
(* their table when empty and read back as the zero value.                  *)

\* every model id and provider name of the model, in the encoder's key order
SortedModelIds ==
    <<"claude-3-5-haiku-20241022", "claude-3-5-sonnet-20241022",
      "claude-3-opus-20240229", "claude-code-default", "ghost",
      "glm-4.5", "glm-4.5-air", "glm-4.6", "orphan">>

SortedProviderNames == <<"anthropic", "claude-code", "glm", "nobody", "nope">>

KeysInOrder(sorted, dom) ==
    LET RECURSIVE pick(_)
        pick(s) == IF s = <<>> THEN <<>>
                   ELSE IF Head(s) \in dom THEN <<Head(s)>> \o pick(Tail(s))
                   ELSE pick(Tail(s))
    IN  pick(sorted)

\* the keys of a table that omitempty drops
DropEmpty(t, keys) ==
    LET empty(k) == IF k = "apiKey" THEN t[k] = <<>> ELSE t[k] = ""
    IN  [k \in {x \in DOMAIN t : ~(x \in keys /\ empty(x))} |-> t[k]]

AuthOmitEmpty == {"apiKey", "baseURL", "authHeader"}

Encode(c) ==
    LET mids == KeysInOrder(SortedModelIds, DOMAIN c.models)
        pnames == KeysInOrder(SortedProviderNames, DOMAIN c.providers)
    IN  <<[table |-> <<"root">>, updatedAt |-> c.updatedAt]>>
        \o [i \in 1..Len(mids) |-> [table |-> <<"models", mids[i]>>, model |-> c.models[mids[i]]]]
        \o [i \in 1..Len(pnames) |->
               [table |-> <<"providers", pnames[i]>>,
                provider |-> [c.providers[pnames[i]] EXCEPT
                                 !.auth = DropEmpty(@, AuthOmitEmpty)]]]
        \o <<[table |-> <<"active">>, active |-> c.active],
             [table |-> <<"settings">>, settings |-> c.settings]>>

\* the zero value of ProviderAuthConfig, over which a decoded table is laid
ZeroAuth ==
    [method |-> "", apiKey |-> <<>>, baseURL |-> "", authHeader |-> "", timeoutSeconds |-> 0]

DecodeAuth(t) == [k \in DOMAIN ZeroAuth |-> IF k \in DOMAIN t THEN t[k] ELSE ZeroAuth[k]]

\* toml.Decode followed by LoadConfig's nil-map initialisation:
\* [ok, cfg].  A document with a repeated table or with bytes that are no
\* table is malformed; a table that is missing leaves the zero value.
Decode(doc) ==
    LET tabs == Range(doc)
        wellFormed ==
            /\ \A t \in tabs : DOMAIN t # {} /\ "table" \in DOMAIN t
            /\ \A i, j \in DOMAIN doc : doc[i].table = doc[j].table => i = j
        having(k) == {t \in tabs : t.table = k}
        group(g) == {t \in tabs : t.table[1] = g}
    IN  IF ~wellFormed THEN [ok |-> FALSE, cfg |-> NilCfg]
        ELSE [ok |-> TRUE,
              cfg |->
                [updatedAt |-> IF having(<<"root">>) = {} THEN 0
                               ELSE (CHOOSE t \in having(<<"root">>) : TRUE).updatedAt,
                 models |-> [id \in {t.table[2] : t \in group("models")} |->
                               (CHOOSE t \in having(<<"models", id>>) : TRUE).model],
                 providers |-> [n \in {t.table[2] : t \in group("providers")} |->
                               LET p == (CHOOSE t \in having(<<"providers", n>>) : TRUE).provider
                               IN  [p EXCEPT !.auth = DecodeAuth(@)]],
                 active |-> IF having(<<"active">>) = {}
                            THEN [provider |-> "", modelMapping |-> EmptyMap]
                            ELSE (CHOOSE t \in having(<<"active">>) : TRUE).active,
                 settings |-> IF having(<<"settings">>) = {}
                              THEN [secureStorage |-> FALSE]
                              ELSE (CHOOSE t \in having(<<"settings">>) : TRUE).settings]]

----------------------------------------------------------------------------
(* internal/config/toml_manager.go : LoadConfig and SaveConfig as whole     *)
(* calls.  SaveConfig works on the caller's *CFLIPConfig: the timestamp and *)
(* the obfuscated secrets are written into the caller's value too.          *)

\* SaveConfig: the outcomes a call may have, each [ok, err, cfg, file]
SaveConfig(c, file, now) ==
    IF ~Valid(c)
    THEN {[ok |-> FALSE, err |-> e, cfg |-> c, file |-> file] : e \in Validate(c)}
    ELSE LET stamped == [c EXCEPT !.updatedAt = now]
             stored == IF stamped.settings.secureStorage
                       THEN encryptAPIKeys(stamped) ELSE stamped
         IN  {[ok |-> TRUE, err |-> "", cfg |-> stored, file |-> FileOf(Encode(stored))]}

\* LoadConfig handing out the default configuration without writing it
LoadConfigUnsaved(file, now) ==
    IF ~file.exists
    THEN {[ok |-> TRUE, err |-> "", cfg |-> NewCFLIPConfig(now), file |-> file]}
    ELSE LET d == Decode(file.doc)
         IN  IF ~d.ok
             THEN {[ok |-> FALSE, err |-> "failed to parse config", cfg |-> NilCfg, file |-> file]}
             ELSE {[ok |-> TRUE, err |-> "",
                    cfg |-> IF d.cfg.settings.secureStorage
                            THEN decryptAPIKeys(d.cfg) ELSE d.cfg,
                    file |-> file]}

\* LoadConfig: the outcomes a call may have, each [ok, err, cfg, file]
LoadConfig(file, now) ==
    IF ~file.exists
    THEN {[ok |-> r.ok, err |-> r.err, cfg |-> r.cfg, file |-> r.file] :
              r \in SaveConfig(NewCFLIPConfig(now), file, now)}
    ELSE LET d == Decode(file.doc)
         IN  IF ~d.ok
             THEN {[ok |-> FALSE, err |-> "failed to parse config", cfg |-> NilCfg, file |-> file]}
             ELSE {[ok |-> TRUE, err |-> "",
                    cfg |-> IF d.cfg.settings.secureStorage
                            THEN decryptAPIKeys(d.cfg) ELSE d.cfg,
                    file |-> file]}

----------------------------------------------------------------------------
(* The parts of the state a specification leaves aside keep these values *)

Writers == {"A", "B"}

ConfigPath == "config.toml"
TempPath == "config.toml.tmp"

Inodes == 1..(2 * Cardinality(Writers))

IdleWriter ==
    [pc |-> "idle", data |-> <<>>, fd |-> 0, off |-> 0, before |-> AbsentFile, at |-> "idle"]

SaveIdle ==
    /\ fsDir = [n \in {ConfigPath, TempPath} |-> 0]
    /\ fsData = [i \in Inodes |-> <<>>]
    /\ wr = [w \in Writers |-> IdleWriter]
    /\ latest = "none"

\* no `cflip onboard` running; selected maps a category to the model the
\* wizard reported as selected
IdleOnboard ==
    [pc |-> "idle", providerName |-> "", i |-> 0, selected |-> EmptyMap]

CfgIdle ==
    /\ ob = IdleOnboard
    /\ cfg = NilCfg
    /\ cfgFile = AbsentFile
    /\ last = [op |-> "none"]
    /\ steps = 0

\* settings.json: no such file
NoSettings == [exists |-> FALSE, bad |-> FALSE, doc |-> EmptyMap]

\* no settings operation yet
NoCall ==
    [op |-> "none", tag |-> "", keep |-> 0, ok |-> FALSE, at |-> 0, before |-> {},
     prior |-> NoSettings, auth |-> "", n |-> 0, hasSecret |-> FALSE,
     secret |-> [t |-> "string", v |-> "", chars |-> <<>>, m |-> EmptyMap],
     url |-> [t |-> "string", v |-> "", chars |-> <<>>, m |-> EmptyMap],
     models |-> EmptyMap, envVars |-> EmptyMap,
     prevOp |-> "none", prevTag |-> "", prevOk |-> FALSE, prevAt |-> 0, prevBefore |-> {}]

SetIdle ==
    /\ settingsFile = NoSettings
    /\ snapshots = {}
    /\ clock = 1
    /\ lastSet = NoCall

\* config.ProviderConfig
ProviderConfig(token, baseURL, modelMap) ==
    [Token |-> token, BaseURL |-> baseURL, ModelMap |-> modelMap]

\* config.NewConfig, config.go lines 29-36
NewConfig ==
    [Provider |-> "anthropic",
     Providers |-> [n \in {"anthropic"} |-> ProviderConfig("", "", EmptyMap)]]

\* config.toml: no such file
NoConfigFile == [exists |-> FALSE, bad |-> FALSE, doc |-> [provider |-> "", providers |-> EmptyMap]]

\* no `cflip switch` running; prior is the settings.json a switch finds
IdleSwitch ==
    [pc |-> "idle", gen |-> "", target |-> "", i |-> 0, c |-> NewConfig,
     settings |-> [Schema |-> "", Env |-> EmptyMap, AdditionalFields |-> EmptyMap],
     prior |-> NoSettings, log |-> <<>>, typedKey |-> <<>>, taken |-> <<>>]

\* no `cflip backup` command run yet; zone is the offset of the local time
\* zone from UTC, made the set of (id, content) pairs CreateBackup returned
IdleBk ==
    [zone |-> 0, op |-> "none", ok |-> FALSE, id |-> <<>>, cutoff |-> 0,
     before |-> {}, removed |-> {}, made |-> {}, n |-> 0]

SwIdle ==
    /\ sw = IdleSwitch
    /\ configFile = NoConfigFile
    /\ backups = {}
    /\ bk = IdleBk

----------------------------------------------------------------------------
(* The configurations a config.toml may hold when an invocation starts: the *)
(* default one, as written by an earlier run or edited by hand (active      *)
(* provider, mapping, a stored secret, secure_storage, catalogue entries).  *)

KeyShort == <<"k", "1">>
KeyLong == <<"s", "k", "-", "a", "n", "t", "-", "0", "1", "2">>

SeedKeys == {<<>>, KeyShort, KeyLong}

SeedActiveProviders == {"anthropic", "glm", "nope"}

SeedMappings ==
    {DefaultMapping,
     EmptyMap,
     [c \in {"haiku", "sonnet"} |-> IF c = "haiku" THEN "glm-4.5-air" ELSE "glm-4.6"],
     [c \in {"sonnet"} |-> "glm-4.5-air"],
     [c \in {"haiku"} |-> "ghost"]}

SeedVariants == {"default", "dangling-provider-model", "orphan-model"}

SeedConfig(ap, mp, key, sec, variant) ==
    LET d == NewCFLIPConfig(0)
        providers == [d.providers EXCEPT
                        !["glm"].auth.apiKey = key,
                        !["glm"].models = IF variant = "dangling-provider-model"
                                          THEN @ \o <<"ghost">>
                                          ELSE IF variant = "two-sonnet"
                                          THEN @ \o <<"glm-4.5">> ELSE @]
        models == IF variant = "orphan-model"
                  THEN Put(d.models, "orphan", ModelConfig("orphan", "nobody", "custom"))
                  ELSE IF variant = "two-sonnet"
                  THEN Put(d.models, "glm-4.5", ModelConfig("glm-4.5", "glm", "sonnet"))
                  ELSE d.models
    IN  [d EXCEPT !.providers = providers,
                  !.models = models,
                  !.active = [provider |-> ap, modelMapping |-> mp],
                  !.settings = [secureStorage |-> sec]]

SeedConfigs ==
    {SeedConfig(ap, mp, key, sec, v) :
        ap \in SeedActiveProviders, mp \in SeedMappings, key \in SeedKeys,
        sec \in BOOLEAN, v \in SeedVariants}

----------------------------------------------------------------------------
(* The configuration store driven by whole calls *)

NoOp == [op |-> "none", with |-> <<>>, ok |-> TRUE, err |-> "", arg |-> NilCfg,
         fileBefore |-> AbsentFile, prevOp |-> "none", prevOk |-> TRUE, prevArg |-> NilCfg,
         prevWith |-> <<>>]

\* op(with...) was called on configuration arg and returned r
Record(op, with, r, arg) ==
    [op |-> op, with |-> with, ok |-> r.ok, err |-> r.err, arg |-> arg,
     fileBefore |-> cfgFile, prevOp |-> last.op, prevOk |-> last.ok, prevArg |-> last.arg,
     prevWith |-> last.with]

InitStore ==
    /\ SwIdle
    /\ SaveIdle
    /\ SetIdle
    /\ cfg = NilCfg
    /\ cfgFile \in {AbsentFile} \cup {FileOf(Encode(c)) : c \in SeedConfigs}
    /\ last = NoOp
    /\ steps = 0
    /\ ob = IdleOnboard

\* tomlManager.LoadConfig()
DoLoadConfig ==
    /\ steps < MaxOps
    /\ \E r \in LoadConfig(cfgFile, steps + 1) :
          /\ cfg' = r.cfg
          /\ cfgFile' = r.file
          /\ last' = Record("LoadConfig", <<>>, r, NilCfg)
    /\ steps' = steps + 1
    /\ ob' = ob
    /\ UNCHANGED <<saveVars, setVars, swVars>>

\* tomlManager.SaveConfig(cfg)
DoSaveConfig ==
    /\ steps < MaxOps
    /\ cfg # NilCfg
    /\ \E r \in SaveConfig(cfg, cfgFile, steps + 1) :
          /\ cfg' = r.cfg
          /\ cfgFile' = r.file
          /\ last' = Record("SaveConfig", <<>>, r, cfg)
    /\ steps' = steps + 1
    /\ ob' = ob
    /\ UNCHANGED <<saveVars, setVars, swVars>>

\* tomlManager.SaveProvider(name, provider), the provider carrying a secret
DoSaveProvider(name, key) ==
    /\ steps < MaxOps
    /\ \E l \in LoadConfig(cfgFile, steps + 1) :
          IF ~l.ok
          THEN /\ cfg' = cfg
               /\ cfgFile' = l.file
               /\ last' = Record("SaveProvider", <<name>>, l, NilCfg)
          ELSE LET given == IF name \in DOMAIN l.cfg.providers
                            THEN [l.cfg.providers[name] EXCEPT !.auth.apiKey = key]
                            ELSE [DefaultProviders["glm"] EXCEPT !.name = name,
                                                                !.auth.apiKey = key]
                   c == [l.cfg EXCEPT !.providers = Put(@, name, given)]
               IN  \E r \in SaveConfig(c, l.file, steps + 1) :
                      /\ cfg' = r.cfg
                      /\ cfgFile' = r.file
                      /\ last' = Record("SaveProvider", <<name>>, r, c)
    /\ steps' = steps + 1
    /\ ob' = ob
    /\ UNCHANGED <<saveVars, setVars, swVars>>

NextStore ==
    \/ DoLoadConfig
    \/ DoSaveConfig
    \/ \E key \in SeedKeys \ {<<>>} : DoSaveProvider("glm", key)

SpecStore == InitStore /\ [][NextStore]_vars

----------------------------------------------------------------------------
(* The active selection driven by TOMLManagerV2.SetActiveProvider and       *)
(* SetActiveModel: each call loads config.toml, changes the loaded value    *)
(* and saves it.                                                            *)

ProviderArgs == {"anthropic", "claude-code", "glm", "nope"}

ModelArgs == {"claude-3-opus-20240229", "claude-code-default", "glm-4.5-air", "glm-4.6", "ghost"}

CategoryArgs == {"haiku", "sonnet", "opus"}

\* config.toml when a call is made: none yet, or the default one after
\* SaveProvider stored a secret for glm, with secure storage on or off
ActiveFiles ==
    {AbsentFile} \cup
    {(CHOOSE r \in SaveConfig(SeedConfig("anthropic", DefaultMapping, KeyShort, sec, "default"),
                              AbsentFile, 0) : TRUE).file : sec \in BOOLEAN} \cup
    {(CHOOSE r \in SaveConfig(SeedConfig("anthropic", DefaultMapping, <<>>, TRUE, "two-sonnet"),
                              AbsentFile, 0) : TRUE).file}

InitActive ==
    /\ SwIdle
    /\ SaveIdle
    /\ SetIdle
    /\ cfg = NilCfg
    /\ cfgFile \in ActiveFiles
    /\ last = NoOp
    /\ steps = 0
    /\ ob = IdleOnboard

\* the change a manager call makes to the loaded configuration
ManagerChange(op, with, c, now) ==
    IF op = "SetActiveProvider"
    THEN SetActiveProvider(c, with[1], now)
    ELSE SetActiveModel(c, with[1], with[2], now)

\* a manager call: LoadConfig, then the change, then SaveConfig
ManagerCall(op, with) ==
    /\ steps < MaxOps
    /\ \E l \in LoadConfig(cfgFile, steps + 1) :
          IF ~l.ok
          THEN /\ cfg' = cfg
               /\ cfgFile' = l.file
               /\ last' = Record(op, with, l, NilCfg)
          ELSE LET ch == ManagerChange(op, with, l.cfg, steps + 1)
               IN  IF ~ch.ok
                   THEN /\ cfg' = ch.cfg
                        /\ cfgFile' = l.file
                        /\ last' = Record(op, with, ch, l.cfg)
                   ELSE \E r \in SaveConfig(ch.cfg, l.file, steps + 1) :
                          /\ cfg' = r.cfg
                          /\ cfgFile' = r.file
                          /\ last' = Record(op, with, r, l.cfg)
    /\ steps' = steps + 1
    /\ ob' = ob
    /\ UNCHANGED <<saveVars, setVars, swVars>>

\* tomlManager.SetActiveProvider(name)
DoSetActiveProvider(name) ==
    ManagerCall("SetActiveProvider", <<name>>)

\* tomlManager.SetActiveModel(category, modelID)
DoSetActiveModel(category, modelID) ==
    ManagerCall("SetActiveModel", <<category, modelID>>)

NextActive ==
    \/ \E name \in ProviderArgs : DoSetActiveProvider(name)
    \/ \E category \in CategoryArgs, modelID \in ModelArgs : DoSetActiveModel(category, modelID)

SpecActive == InitActive /\ [][NextActive]_vars

----------------------------------------------------------------------------
(* Claims about the configuration store *)

\* equality of two configurations in every field but updatedAt
SameExceptUpdatedAt(a, b) ==
    /\ a.models = b.models
    /\ a.providers = b.providers
    /\ a.active = b.active
    /\ a.settings = b.settings

\* C3: for every configuration c that passes validation, SaveConfig(c)
\* followed by LoadConfig returns a configuration equal to c in every field
\* except updatedAt, stored secrets included, whatever secureStorage is.
C3_SaveLoadRoundTrip ==
    (last.op = "LoadConfig" /\ last.ok /\ last.prevOp = "SaveConfig" /\ last.prevOk)
        => SameExceptUpdatedAt(cfg, last.prevArg)

\* the referential invariant of the active selection
Referential(c) ==
    \A k \in DOMAIN c.active.modelMapping :
        /\ c.active.modelMapping[k] \in DOMAIN c.models
        /\ c.models[c.active.modelMapping[k]].category = k

\* C4: every configuration Validate accepts, and so every configuration
\* SaveConfig persists, maps each category of active.modelMapping to an
\* existing model whose category is that mapping key.
C4_ValidIsReferential ==
    /\ (cfg # NilCfg /\ Valid(cfg)) => Referential(cfg)
    /\ (last.op = "SaveConfig" /\ last.ok) => Referential(last.arg)

\* the referential violations of a configuration
ActiveProviderMissing(c) == c.active.provider \notin DOMAIN c.providers

DanglingReference(c) ==
    \/ \E n \in DOMAIN c.providers : \E i \in DOMAIN c.providers[n].models :
          c.providers[n].models[i] \notin DOMAIN c.models
    \/ \E id \in DOMAIN c.models : c.models[id].provider \notin DOMAIN c.providers
    \/ \E k \in DOMAIN c.active.modelMapping :
          c.active.modelMapping[k] \notin DOMAIN c.models

\* C24: SaveConfig rejects with a validation error, and without changing
\* anything on disk, every configuration whose active provider does not
\* exist, in which a provider lists a model id missing from models, a model
\* names a provider missing from providers, or an active mapping entry names
\* a missing model; when the active provider is missing, that is the
\* violation reported, whatever else is wrong.
C24_InvalidRejectedUnwritten ==
    (last.op = "SaveConfig" /\ (ActiveProviderMissing(last.arg) \/ DanglingReference(last.arg)))
        => /\ ~last.ok
           /\ last.err # ""
           /\ cfgFile = last.fileBefore
           /\ cfg = last.arg
           /\ ActiveProviderMissing(last.arg) => last.err = "invalid active provider"

\* C24: SaveConfig was given a configuration with a missing active provider
\* and a dangling reference besides, and refused it
C24_RejectedForActiveProvider ==
    /\ last.op = "SaveConfig"
    /\ ActiveProviderMissing(last.arg)
    /\ DanglingReference(last.arg)
    /\ ~last.ok
    /\ cfgFile.exists

----------------------------------------------------------------------------
(* Claims about the active selection *)

\* the categories of the models a provider offers
OfferedCategories(c, p) ==
    {c.models[id].category : id \in Range(c.providers[p].models) \cap DOMAIN c.models}

\* C5: after setActiveProvider(p) succeeds, active.modelMapping is the
\* mapping re-derived from p's model list: it has an entry for a category only
\* if p offers a model of that category, and nothing of the earlier mapping
\* survives the switch.
C5_MappingRederived ==
    (last.op = "SetActiveProvider" /\ last.ok) =>
        /\ DOMAIN cfg.active.modelMapping = OfferedCategories(cfg, last.with[1])
        /\ \A k \in DOMAIN cfg.active.modelMapping :
               cfg.active.modelMapping[k] \in Range(cfg.providers[last.with[1]].models)

\* SetActiveModel returned one of its own two errors
SetActiveModelRefused ==
    /\ last.op = "SetActiveModel"
    /\ ~last.ok
    /\ last.err \in {"model not found", "model is not in category"}

\* the file LoadConfig writes when there is none
DefaultFiles(now) == {r.file : r \in SaveConfig(NewCFLIPConfig(now), AbsentFile, now)}

\* C13 as stated: setActiveModel(category, modelId) with a modelId that does
\* not exist, or whose category differs, returns an error and changes
\* nothing: active.modelMapping in memory and the configuration file on disk
\* are the same as before the call.
C13_RefusedChangesNothing ==
    SetActiveModelRefused =>
        /\ cfg.active.modelMapping = last.arg.active.modelMapping
        /\ cfgFile = last.fileBefore

\* C13: setActiveModel(category, modelId) with a modelId that does not
\* exist, or whose category differs, returns an error and changes nothing:
\* active.modelMapping in memory is as loaded, and the configuration file on
\* disk is the same as before the call or, when there was no file before the
\* call, holds the default configuration that loading created.
C13_RefusedKeepsOrCreatesDefault ==
    SetActiveModelRefused =>
        /\ cfg.active.modelMapping = last.arg.active.modelMapping
        /\ IF last.fileBefore.exists THEN cfgFile = last.fileBefore
           ELSE cfgFile \in DefaultFiles(steps)

\* C13: a model of another category was refused with a file on disk
C13_WrongCategoryRefused ==
    /\ SetActiveModelRefused
    /\ last.err = "model is not in category"
    /\ last.fileBefore.exists
    /\ last.with[1] \in DOMAIN cfg.active.modelMapping

\* the configuration a config.toml holds, as stored
Stored(file) == Decode(file.doc).cfg

\* C14: setActiveModel(category, modelId), when modelId exists and has that
\* category, changes only active.modelMapping[category]: every other mapping
\* entry, the active provider, the model catalog and the provider table are
\* unchanged, in memory and in the configuration file.
C14_OnlyOneEntryChanges ==
    (last.op = "SetActiveModel" /\ last.ok) =>
        /\ DOMAIN cfg.active.modelMapping
               = DOMAIN last.arg.active.modelMapping \cup {last.with[1]}
        /\ \A k \in DOMAIN last.arg.active.modelMapping \ {last.with[1]} :
               cfg.active.modelMapping[k] = last.arg.active.modelMapping[k]
        /\ cfg.active.modelMapping[last.with[1]] = last.with[2]
        /\ cfg.active.provider = last.arg.active.provider
        /\ cfg.models = last.arg.models
        /\ cfg.providers = last.arg.providers
        /\ last.fileBefore.exists =>
               /\ Stored(cfgFile).active.provider = Stored(last.fileBefore).active.provider
               /\ Stored(cfgFile).models = Stored(last.fileBefore).models
               /\ Stored(cfgFile).providers = Stored(last.fileBefore).providers

\* C15: setActiveProvider is idempotent on the mapping: calling
\* setActiveProvider(p) twice in a row for an existing provider p gives the
\* same active.modelMapping after the second call as after the first.
C15_SetActiveProviderIdempotent ==
    (/\ last.op = "SetActiveProvider" /\ last.ok
     /\ last.prevOp = "SetActiveProvider" /\ last.prevOk
     /\ last.prevWith = last.with)
        => cfg.active.modelMapping = last.arg.active.modelMapping

\* C15: the second of two setActiveProvider("glm") calls has returned, the
\* mapping holding glm's models
C15_SecondCallDone ==
    /\ last.op = "SetActiveProvider" /\ last.ok
    /\ last.prevOp = "SetActiveProvider" /\ last.prevOk
    /\ last.prevWith = last.with
    /\ last.with = <<"glm">>
    /\ "haiku" \in DOMAIN cfg.active.modelMapping
    /\ cfg.active.modelMapping["haiku"] = "glm-4.5-air"

\* the models of category k that provider p lists and the catalog has, in
\* list order
ListedOf(c, p, k) ==
    SelectSeq(c.providers[p].models,
              LAMBDA id : id \in DOMAIN c.models /\ c.models[id].category = k)

\* C16 as stated: when provider p lists several models of one category,
\* setActiveProvider(p) maps that category to the first such model in p's
\* list order; later models of the category do not replace it.
C16_FirstMatchWins ==
    (last.op = "SetActiveProvider" /\ last.ok) =>
        \A k \in OfferedCategories(cfg, last.with[1]) :
            cfg.active.modelMapping[k] = Head(ListedOf(cfg, last.with[1], k))

\* C16: when provider p lists several models of one category,
\* setActiveProvider(p) maps that category to the last such model in p's
\* list order; each later model of the category replaces the earlier one.
C16_LastMatchWins ==
    (last.op = "SetActiveProvider" /\ last.ok) =>
        \A k \in OfferedCategories(cfg, last.with[1]) :
            LET listed == ListedOf(cfg, last.with[1], k)
            IN  cfg.active.modelMapping[k] = listed[Len(listed)]

\* C16: setActiveProvider succeeded for a provider that lists two models of
\* one category
C16_TwoOfOneCategory ==
    /\ last.op = "SetActiveProvider" /\ last.ok
    /\ \E k \in OfferedCategories(cfg, last.with[1]) :
          Len(ListedOf(cfg, last.with[1], k)) >= 2

\* LoadConfig returned with no configuration file there before the call
LoadedWithoutFile ==
    /\ last.op = "LoadConfig"
    /\ last.ok
    /\ ~last.fileBefore.exists

RefusalErrors == {"provider not found", "model not found", "model is not in category"}

\* C26: starting from the default configuration, after any sequence of
\* SetActiveProvider and SetActiveModel calls, succeeding or failing, the
\* configuration passes Validate, so that no SaveConfig fails on validation,
\* and every active.modelMapping entry names an existing model whose
\* category is its key.
C26_StaysValid ==
    /\ cfg # NilCfg => (Valid(cfg) /\ Referential(cfg))
    /\ (last.op \in {"SetActiveProvider", "SetActiveModel"} /\ ~last.ok) =>
           last.err \in RefusalErrors

\* C26: a switch to glm succeeded and a SetActiveModel after it was refused
C26_RefusedAfterSwitch ==
    /\ cfg # NilCfg
    /\ last.op = "SetActiveModel"
    /\ ~last.ok
    /\ last.prevOp = "SetActiveProvider"
    /\ last.prevOk
    /\ cfg.active.provider = "glm"
    /\ DOMAIN cfg.active.modelMapping # {}

\* C27: after any sequence of SetActiveProvider and SetActiveModel calls,
\* every model in active.modelMapping is listed in the models of the active
\* provider, so that no default-model key of the settings document names a
\* model of another provider.
C27_MappedModelsOffered ==
    (cfg # NilCfg /\ cfg.active.provider \in DOMAIN cfg.providers) =>
        \A k \in DOMAIN cfg.active.modelMapping :
            cfg.active.modelMapping[k] \in Range(cfg.providers[cfg.active.provider].models)

----------------------------------------------------------------------------
(* internal/config/toml_manager.go : SaveConfig step by step on the file    *)
(* system.  os.WriteFile opens the temporary file with O_CREATE|O_TRUNC,    *)
(* writes through its descriptor and closes it; os.Rename replaces the      *)
(* directory entry of config.toml.  An invocation may be killed between any *)
(* two steps.                                                               *)

\* small configurations, so that a document is a handful of tables
MiniConfig(ids, ap) ==
    LET d == NewCFLIPConfig(0)
    IN  [updatedAt |-> 0,
         models |-> [id \in Range(ids) |-> d.models[id]],
         providers |-> [n \in {"glm"} |-> [d.providers["glm"] EXCEPT !.models = ids]],
         active |-> [provider |-> ap,
                     modelMapping |-> MapModelsByCategory(d.models, EmptyMap, ids)],
         settings |-> [secureStorage |-> TRUE]]

SaveInputs ==
    {MiniConfig(<<"glm-4.5-air">>, "glm"),
     MiniConfig(<<"glm-4.5-air", "glm-4.6">>, "glm"),
     MiniConfig(<<"glm-4.5-air">>, "nope")}

\* the reading of time.Now() in an invocation
StampOf(w) == IF w = "A" THEN 1 ELSE 2

\* bytes no write has put there: a gap left by writing past the end
Hole == [zero |-> TRUE]

\* write(fd, e) at element position pos
WriteAt(content, pos, e) ==
    IF pos <= Len(content) THEN [content EXCEPT ![pos] = e]
    ELSE content \o [i \in 1..(pos - Len(content) - 1) |-> Hole] \o <<e>>

\* writing the document straight to the destination path
tempFileInPlace == ConfigPath

\* line 106: tempFile := configPath + ".tmp"
tempFile == TempPath

\* what a reader of config.toml sees
Dest ==
    IF fsDir[ConfigPath] = 0 THEN AbsentFile ELSE FileOf(fsData[fsDir[ConfigPath]])

Active(w) == wr[w].pc \in {"open", "write", "rename"}

\* inodes with a directory entry or an open descriptor, given dir and writers
Live(dir, writers) ==
    {dir[n] : n \in DOMAIN dir} \cup {writers[w].fd : w \in Writers}

\* the kernel frees an inode with no entry and no descriptor
Reclaim(dir, data, writers) ==
    [i \in Inodes |-> IF i \in Live(dir, writers) THEN data[i] ELSE <<>>]

\* lines 79-103: Validate, UpdateTimestamp, encryptAPIKeys, Encode; each
\* writer is one invocation of the program
SaveBegin(w, c, alone) ==
    /\ wr[w].pc = "idle"
    /\ alone => \A v \in Writers : ~Active(v)
    /\ LET r == CHOOSE x \in SaveConfig(c, Dest, StampOf(w)) : TRUE
       IN  wr' = [wr EXCEPT ![w] =
                    [pc |-> IF r.ok THEN "open" ELSE "failed",
                     data |-> IF r.ok THEN r.file.doc ELSE <<>>,
                     fd |-> 0, off |-> 0, before |-> Dest, at |-> "validate"]]
    /\ latest' = w
    /\ UNCHANGED <<fsDir, fsData>>
    /\ UNCHANGED <<cfgVars, setVars, swVars>>

\* line 107, os.WriteFile: OpenFile(tempFile, O_WRONLY|O_CREATE|O_TRUNC)
SaveOpen(w) ==
    /\ wr[w].pc = "open"
    /\ LET ino == IF fsDir[tempFile] # 0 THEN fsDir[tempFile]
                  ELSE CHOOSE i \in Inodes : i \notin Live(fsDir, wr)
       IN  /\ fsDir' = [fsDir EXCEPT ![tempFile] = ino]
           /\ fsData' = [fsData EXCEPT ![ino] = <<>>]
           /\ wr' = [wr EXCEPT ![w].pc = "write", ![w].fd = ino, ![w].off = 0]
    /\ UNCHANGED latest
    /\ UNCHANGED <<cfgVars, setVars, swVars>>

\* line 107, os.WriteFile: f.Write(data), one table at a time
SaveWrite(w) ==
    /\ wr[w].pc = "write"
    /\ wr[w].off < Len(wr[w].data)
    /\ fsData' = [fsData EXCEPT ![wr[w].fd] = WriteAt(@, wr[w].off + 1, wr[w].data[wr[w].off + 1])]
    /\ wr' = [wr EXCEPT ![w].off = @ + 1]
    /\ UNCHANGED <<fsDir, latest>>
    /\ UNCHANGED <<cfgVars, setVars, swVars>>

\* line 107, os.WriteFile: f.Close() after the last write
SaveClose(w) ==
    /\ wr[w].pc = "write"
    /\ wr[w].off = Len(wr[w].data)
    /\ LET closed == [wr EXCEPT ![w].pc = "rename", ![w].fd = 0]
       IN  /\ wr' = closed
           /\ fsData' = Reclaim(fsDir, fsData, closed)
    /\ UNCHANGED <<fsDir, latest>>
    /\ UNCHANGED <<cfgVars, setVars, swVars>>

\* lines 107-109: os.WriteFile fails (disk full, I/O error); SaveConfig returns
SaveWriteFail(w) ==
    /\ wr[w].pc = "write"
    /\ LET closed == [wr EXCEPT ![w].pc = "failed", ![w].fd = 0, ![w].at = "write"]
       IN  /\ wr' = closed
           /\ fsData' = Reclaim(fsDir, fsData, closed)
    /\ UNCHANGED <<fsDir, latest>>
    /\ UNCHANGED <<cfgVars, setVars, swVars>>

\* lines 112-117: os.Rename(tempFile, configPath) succeeds
SaveRename(w) ==
    /\ wr[w].pc = "rename"
    /\ fsDir[tempFile] # 0
    /\ LET dir == IF tempFile = ConfigPath THEN fsDir
                  ELSE [fsDir EXCEPT ![ConfigPath] = fsDir[tempFile], ![tempFile] = 0]
       IN  /\ fsDir' = dir
           /\ fsData' = Reclaim(dir, fsData, wr)
    /\ wr' = [wr EXCEPT ![w].pc = "done", ![w].at = "rename"]
    /\ UNCHANGED latest
    /\ UNCHANGED <<cfgVars, setVars, swVars>>

\* lines 112-115: os.Rename fails, as it must when the temporary file is gone
\* and as it may on a fault of the file system; os.Remove(tempFile), and
\* SaveConfig returns the error
SaveRenameFail(w, fault) ==
    /\ wr[w].pc = "rename"
    /\ fault \/ fsDir[tempFile] = 0
    /\ LET dir == IF tempFile = ConfigPath THEN fsDir ELSE [fsDir EXCEPT ![tempFile] = 0]
       IN  /\ fsDir' = dir
           /\ fsData' = Reclaim(dir, fsData, wr)
    /\ wr' = [wr EXCEPT ![w].pc = "failed", ![w].at = "rename"]
    /\ UNCHANGED latest
    /\ UNCHANGED <<cfgVars, setVars, swVars>>

\* the process is killed where it stands; the kernel closes its descriptor
Crash(w) ==
    /\ Active(w)
    /\ LET dead == [wr EXCEPT ![w].pc = "crashed", ![w].fd = 0, ![w].at = wr[w].pc]
       IN  /\ wr' = dead
           /\ fsData' = Reclaim(fsDir, fsData, dead)
    /\ UNCHANGED <<fsDir, latest>>
    /\ UNCHANGED <<cfgVars, setVars, swVars>>

\* config.toml when the first invocation starts: not there, or left complete
\* by an earlier run
InitSave ==
    /\ SwIdle
    /\ SetIdle
    /\ CfgIdle
    /\ \E had \in BOOLEAN :
          /\ fsDir = [n \in {ConfigPath, TempPath} |-> IF had /\ n = ConfigPath THEN 1 ELSE 0]
          /\ fsData = [i \in Inodes |->
                          IF had /\ i = 1
                          THEN Encode(MiniConfig(<<"glm-4.6">>, "glm")) ELSE <<>>]
    /\ wr = [w \in Writers |-> IdleWriter]
    /\ latest = "none"

\* one invocation at a time, which a fault or a kill may end at any step
NextSaveSeq ==
    \E w \in Writers :
        \/ \E c \in SaveInputs : SaveBegin(w, c, TRUE)
        \/ SaveOpen(w)
        \/ SaveWrite(w)
        \/ SaveClose(w)
        \/ SaveWriteFail(w)
        \/ SaveRename(w)
        \/ SaveRenameFail(w, TRUE)
        \/ Crash(w)

SpecSaveSeq == InitSave /\ [][NextSaveSeq]_vars

\* invocations side by side, on a file system without faults
NextSaveConc ==
    \E w \in Writers :
        \/ \E c \in SaveInputs : SaveBegin(w, c, FALSE)
        \/ SaveOpen(w)
        \/ SaveWrite(w)
        \/ SaveClose(w)
        \/ SaveRename(w)
        \/ SaveRenameFail(w, FALSE)

SpecSaveConc == InitSave /\ [][NextSaveConc]_vars

----------------------------------------------------------------------------
(* Claims about SaveConfig on the file system *)

\* the invocation that started last
Cur == wr[latest]

\* C1: SaveConfig is crash-atomic: interrupted at any step of a save, the
\* file at the destination path holds the complete previous content or the
\* complete new content, never a partial or empty document, and an
\* interruption before the rename leaves it unchanged.
C1_CrashAtomic ==
    latest # "none" =>
        /\ Cur.pc = "done" => Dest = FileOf(Cur.data)
        /\ Cur.pc # "done" => Dest = Cur.before

\* C1: an invocation was killed between the temp-file write and the rename:
\* the temporary file holds the whole new document, the destination still the
\* previous one
C1_KilledBeforeRename ==
    /\ latest # "none"
    /\ Cur.pc = "crashed"
    /\ Cur.at = "rename"
    /\ fsDir[TempPath] # 0
    /\ fsData[fsDir[TempPath]] = Cur.data
    /\ Cur.before.exists
    /\ Dest = Cur.before
    /\ Dest # FileOf(Cur.data)

\* the documents some invocation set out to write, and the one found at start
CompleteDocs ==
    {wr[w].data : w \in {v \in Writers : wr[v].data # <<>>}}
        \cup {Encode(MiniConfig(<<"glm-4.6">>, "glm"))}

\* C9: with two invocations of SaveConfig interleaved on the same path, the
\* destination file never holds a partially written document, and once both
\* have returned it holds the complete document of one of the two.
C9_NoTornFile ==
    /\ Dest.exists => Dest.doc \in CompleteDocs
    /\ (\A w \in Writers : wr[w].pc \in {"done", "failed"} /\ wr[w].data # <<>>) =>
           Dest.doc \in {wr[w].data : w \in Writers}

\* C21: SaveConfig writes through the temporary file: on every error exit of
\* the write (failed write, close or rename) no temporary file is left on
\* disk, and on success the temporary file has been renamed onto config.toml.
C21_NoTempFileLeft ==
    latest # "none" =>
        /\ (Cur.pc = "failed" /\ Cur.at \in {"write", "rename"}) => fsDir[TempPath] = 0
        /\ Cur.pc = "done" => (fsDir[TempPath] = 0 /\ Dest = FileOf(Cur.data))

----------------------------------------------------------------------------
(* internal/cli/settings.go : the settings document and its snapshots *)

\* JSON values as encoding/json decodes them into interface{}
JStr(x) == [t |-> "string", v |-> x, chars |-> <<>>, m |-> EmptyMap]
JNum(x) == [t |-> "number", v |-> x, chars |-> <<>>, m |-> EmptyMap]
JObj(f) == [t |-> "object", v |-> "map[]", chars |-> <<>>, m |-> f]

\* a JSON string given by its characters, as the secrets of the model are
JChars(x) == [t |-> "string", v |-> "", chars |-> x, m |-> EmptyMap]

\* fmt.Sprintf("%v", x): a string and a number print alike
Fmt(x) ==
    IF x.t = "object"
    THEN [s |-> "map[]", chars |-> <<>>,
          m |-> [k \in DOMAIN x.m |-> [s |-> x.m[k].v, chars |-> x.m[k].chars]]]
    ELSE [s |-> x.v, chars |-> x.chars, m |-> EmptyMap]

\* a settings file holding the JSON object doc
JSONFile(doc) == [exists |-> TRUE, bad |-> FALSE, doc |-> doc]

\* a file that json.Unmarshal rejects: cut short, or not an object
BadFile == [exists |-> TRUE, bad |-> TRUE, doc |-> EmptyMap]

\* f without the keys in ks
Without(f, ks) == [k \in DOMAIN f \ ks |-> f[k]]

\* LoadSettings, lines 131-173
LoadSettings(file) ==
    IF ~file.exists
    THEN [ok |-> TRUE,
          settings |-> [Schema |-> "", Env |-> EmptyMap, AdditionalFields |-> EmptyMap]]
    ELSE IF file.bad
    THEN [ok |-> FALSE,
          settings |-> [Schema |-> "", Env |-> EmptyMap, AdditionalFields |-> EmptyMap]]
    ELSE LET rawSettings == file.doc
         IN  [ok |-> TRUE,
              settings |->
                [Schema |-> IF "$schema" \in DOMAIN rawSettings
                               /\ rawSettings["$schema"].t = "string"
                            THEN rawSettings["$schema"].v ELSE "",
                 Env |-> IF "env" \in DOMAIN rawSettings /\ rawSettings["env"].t = "object"
                         THEN rawSettings["env"].m ELSE EmptyMap,
                 AdditionalFields |-> Without(rawSettings, {"$schema", "env"})]]

\* the document SaveSettings marshals, lines 178-193
FullSettings(settings) ==
    LET keys == DOMAIN settings.AdditionalFields
                  \cup (IF settings.Schema # "" THEN {"$schema"} ELSE {})
                  \cup (IF DOMAIN settings.Env # {} THEN {"env"} ELSE {})
    IN  [k \in keys |->
            IF k \in DOMAIN settings.AdditionalFields THEN settings.AdditionalFields[k]
            ELSE IF k = "$schema" THEN JStr(settings.Schema)
            ELSE JObj(settings.Env)]

\* SaveSettings, lines 176-212: the file os.WriteFile leaves where old was;
\* when it cannot open the file for writing, nothing changes
SaveSettings(old, settings, fault) ==
    IF fault = "open" THEN [ok |-> FALSE, file |-> old]
    ELSE [ok |-> TRUE, file |-> JSONFile(FullSettings(settings))]

WriteFaults == {"none", "open"}

\* compareValues, lines 383-389
compareValues(a, b) == Fmt(a) = Fmt(b)

\* settingsEqual, lines 353-380
settingsEqual(a, b) ==
    /\ a.Schema = b.Schema
    /\ Cardinality(DOMAIN a.Env) = Cardinality(DOMAIN b.Env)
    /\ \A k \in DOMAIN a.Env : k \in DOMAIN b.Env /\ compareValues(a.Env[k], b.Env[k])
    /\ Cardinality(DOMAIN a.AdditionalFields) = Cardinality(DOMAIN b.AdditionalFields)
    /\ \A k \in DOMAIN a.AdditionalFields :
           k \in DOMAIN b.AdditionalFields
               /\ compareValues(a.AdditionalFields[k], b.AdditionalFields[k])

\* the provider tags detectCurrentProvider gives, in the order of their names
Tags == <<"anthropic", "external", "glm", "openai">>

TagRank(tag) == CHOOSE i \in 1..Len(Tags) : Tags[i] = tag

\* "snapshot-<provider>-<timestamp>.json" split at its separators; the
\* timestamp has a fixed width, so it sorts as the number it shows
SnapshotName(provider, timestamp) == <<"snapshot", provider, timestamp>>

\* file names in the order of their bytes
NameBefore(a, b) ==
    \/ TagRank(a[2]) < TagRank(b[2])
    \/ a[2] = b[2] /\ a[3] < b[3]

RECURSIVE SortNames(_)
SortNames(names) ==
    IF names = {} THEN <<>>
    ELSE LET first == CHOOSE a \in names : \A b \in names \ {a} : NameBefore(a, b)
         IN  <<first>> \o SortNames(names \ {first})

\* ListSnapshots, lines 242-259: os.ReadDir returns the entries sorted by name
ListSnapshots(dir) == SortNames({f.name : f \in dir})

\* the file of the given name in the snapshots directory
FileNamed(dir, name) == CHOOSE f \in dir : f.name = name

\* extractTimestampFromFilename, lines 341-350
extractTimestampFromFilename(filename) == filename[3]

\* the names of the list that belong to the provider, in list order
NamesOf(list, provider) == SelectSeq(list, LAMBDA n : n[1] = "snapshot" /\ n[2] = provider)

\* CreateSnapshot as it was before it compared with the latest snapshot
neverIdentical(dir, provider, currentSettings) == FALSE

\* isIdenticalToLatestSnapshot, lines 300-338
isIdenticalToLatestSnapshot(dir, provider, currentSettings) ==
    LET providerSnapshots == NamesOf(ListSnapshots(dir), provider)
    IN  IF Len(providerSnapshots) = 0 THEN FALSE
        ELSE LET newest == CHOOSE n \in Range(providerSnapshots) :
                              \A o \in Range(providerSnapshots) :
                                  extractTimestampFromFilename(o)
                                      <= extractTimestampFromFilename(n)
                 latestSettings == LoadSettings(FileNamed(dir, newest).file)
             IN  IF ~latestSettings.ok THEN FALSE
                 ELSE settingsEqual(currentSettings, latestSettings.settings)

\* the directory after a write of file under name (no entry if none resulted)
WithFile(dir, name, file) ==
    {f \in dir : f.name # name}
        \cup (IF file.exists THEN {[name |-> name, file |-> file]} ELSE {})

\* what the directory holds under name
Holding(dir, name) ==
    IF \E f \in dir : f.name = name THEN FileNamed(dir, name).file ELSE NoSettings

\* CreateSnapshot, lines 215-239
CreateSnapshot(file, dir, provider, now, fault) ==
    LET l == LoadSettings(file)
    IN  IF ~l.ok THEN [ok |-> FALSE, dir |-> dir]
        ELSE IF isIdenticalToLatestSnapshot(dir, provider, l.settings)
        THEN [ok |-> TRUE, dir |-> dir]
        ELSE LET snapshotFile == SnapshotName(provider, now)
                 r == SaveSettings(Holding(dir, snapshotFile), l.settings, fault)
             IN  [ok |-> r.ok, dir |-> WithFile(dir, snapshotFile, r.file)]

\* the providers CleanupOldSnapshots finds in the file names, lines 269-281
ProvidersIn(list) == {list[i][2] : i \in {j \in 1..Len(list) : list[j][1] = "snapshot"}}

\* the files CleanupOldSnapshots removes, lines 283-294
Removed(list, keepCount) ==
    UNION {LET files == NamesOf(list, provider)
           IN  {files[i] : i \in (keepCount + 1)..Len(files)} : provider \in ProvidersIn(list)}

\* CleanupOldSnapshots, lines 262-297
CleanupOldSnapshots(dir, keepCount) ==
    {f \in dir : f.name \notin Removed(ListSnapshots(dir), keepCount)}

----------------------------------------------------------------------------
(* Snapshots taken and cleaned up while the settings document changes *)

MaxClock == 2

\* the record of a settings operation, keeping the one before it
Called(op, tag, keep, ok) ==
    [op |-> op, tag |-> tag, keep |-> keep, ok |-> ok, at |-> clock, before |-> snapshots,
     prior |-> NoSettings, auth |-> "", n |-> lastSet.n, hasSecret |-> FALSE,
     secret |-> JStr(""), url |-> JStr(""), models |-> EmptyMap, envVars |-> EmptyMap,
     prevOp |-> lastSet.op, prevTag |-> lastSet.tag, prevOk |-> lastSet.ok,
     prevAt |-> lastSet.at, prevBefore |-> lastSet.before]

\* settings documents a user may have
DocPlain ==
    [k \in {"$schema", "theme", "env"} |->
        IF k = "$schema" THEN JStr("https://json.schemastore.org/claude-code-settings.json")
        ELSE IF k = "theme" THEN JStr("dark")
        ELSE JObj([e \in {"FOO"} |-> JStr("1")])]

DocOdd ==
    [k \in {"$schema", "theme", "env"} |->
        IF k = "$schema" THEN JNum("5")
        ELSE IF k = "theme" THEN JStr("light")
        ELSE JStr("none")]

SnapFiles == {BadFile, JSONFile(DocPlain), JSONFile(DocOdd)}

\* the tags of the snapshots taken here
SnapTags == {"anthropic", "glm"}

InitSnap ==
    /\ SwIdle
    /\ SaveIdle
    /\ CfgIdle
    /\ settingsFile \in SnapFiles
    /\ snapshots = {}
    /\ clock = 1
    /\ lastSet = NoCall

\* CreateSnapshot(settingsPath, snapshotsDir, provider)
DoCreateSnapshot(provider, fault) ==
    /\ LET r == CreateSnapshot(settingsFile, snapshots, provider, clock, fault)
       IN  /\ snapshots' = r.dir
           /\ lastSet' = Called("CreateSnapshot", provider, 0, r.ok)
    /\ UNCHANGED <<settingsFile, clock>>
    /\ UNCHANGED <<cfgVars, saveVars, swVars>>

\* CleanupOldSnapshots(snapshotsDir, keepCount)
DoCleanupOldSnapshots(keepCount) ==
    /\ snapshots' = CleanupOldSnapshots(snapshots, keepCount)
    /\ lastSet' = Called("CleanupOldSnapshots", "", keepCount, TRUE)
    /\ UNCHANGED <<settingsFile, clock>>
    /\ UNCHANGED <<cfgVars, saveVars, swVars>>

\* the user, or the tool the file belongs to, rewrites settings.json
EditSettings(file) ==
    /\ file # settingsFile
    /\ settingsFile' = file
    /\ lastSet' = Called("EditSettings", "", 0, TRUE)
    /\ UNCHANGED <<snapshots, clock>>
    /\ UNCHANGED <<cfgVars, saveVars, swVars>>

\* a second passes
Tick ==
    /\ clock < MaxClock
    /\ clock' = clock + 1
    /\ UNCHANGED <<settingsFile, snapshots, lastSet>>
    /\ UNCHANGED <<cfgVars, saveVars, swVars>>

NextSnap ==
    \/ \E provider \in SnapTags, fault \in WriteFaults : DoCreateSnapshot(provider, fault)
    \/ \E keepCount \in {1, 2} : DoCleanupOldSnapshots(keepCount)
    \/ \E file \in SnapFiles : EditSettings(file)
    \/ Tick

SpecSnap == InitSnap /\ [][NextSnap]_vars

----------------------------------------------------------------------------
(* Claims about snapshots *)

\* the files of the directory that carry the provider tag
OfTag(dir, tag) == {f \in dir : f.name[2] = tag}

\* two calls of CreateSnapshot in a row, same tag, both returning nil, the
\* settings document not rewritten in between
TwoSnapshotsInARow ==
    /\ lastSet.op = "CreateSnapshot"
    /\ lastSet.ok
    /\ lastSet.prevOp = "CreateSnapshot"
    /\ lastSet.prevOk
    /\ lastSet.tag = lastSet.prevTag

\* C6: two consecutive createSnapshot calls with the same provider tag and an
\* unchanged settings document leave exactly one snapshot file for that tag:
\* the second call finds the document equal to the most recent snapshot of the
\* tag and writes nothing.
C6_OneSnapshotForTwoCalls ==
    TwoSnapshotsInARow =>
        /\ snapshots = lastSet.before
        /\ OfTag(lastSet.prevBefore, lastSet.tag) = {} =>
               Cardinality(OfTag(snapshots, lastSet.tag)) = 1

\* C6: a second call, a second or more after the first, on a document that
\* LoadSettings does not read back as written, left the single snapshot alone
C6_SecondCallSkipped ==
    /\ TwoSnapshotsInARow
    /\ lastSet.at > lastSet.prevAt
    /\ settingsFile = JSONFile(DocOdd)
    /\ OfTag(lastSet.prevBefore, lastSet.tag) = {}
    /\ Cardinality(OfTag(snapshots, lastSet.tag)) = 1
    /\ Cardinality(snapshots) = 2

\* the smaller of two numbers
Min(a, b) == IF a < b THEN a ELSE b

\* C7: after cleanupOldSnapshots(keepPerTag) the surviving files of each
\* provider tag are the keepPerTag files with the most recent timestamps (all
\* of them when the tag has no more than that), and every deleted file is
\* older than every surviving file of its tag.
C7_KeepsMostRecent ==
    lastSet.op = "CleanupOldSnapshots" =>
        /\ snapshots \subseteq lastSet.before
        /\ \A tag \in Range(Tags) :
              LET had == OfTag(lastSet.before, tag)
                  kept == OfTag(snapshots, tag)
              IN  /\ Cardinality(kept) = Min(lastSet.keep, Cardinality(had))
                  /\ \A d \in had \ kept, k \in kept : d.name[3] < k.name[3]

----------------------------------------------------------------------------
(* internal/cli/switch.go : generateClaudeSettings over config.Config, and   *)
(* its earlier form over the TOML configuration (generateClaudeSettingsV2)   *)

\* keysToDelete, lines 529-535
ReservedKeys ==
    {"ANTHROPIC_AUTH_TOKEN", "ANTHROPIC_BASE_URL", "ANTHROPIC_DEFAULT_HAIKU_MODEL",
     "ANTHROPIC_DEFAULT_SONNET_MODEL", "ANTHROPIC_DEFAULT_OPUS_MODEL"}

\* fmt.Sprintf("ANTHROPIC_DEFAULT_%s_MODEL", strings.ToUpper(category))
ModelEnvKey(category) ==
    CASE category = "haiku" -> "ANTHROPIC_DEFAULT_HAIKU_MODEL"
      [] category = "sonnet" -> "ANTHROPIC_DEFAULT_SONNET_MODEL"
      [] category = "opus" -> "ANTHROPIC_DEFAULT_OPUS_MODEL"
      [] OTHER -> "ANTHROPIC_DEFAULT_CUSTOM_MODEL"

anthropicProvider == "anthropic"

\* the base URLs of the model that contain "z.ai" or "glm"
GLMLike == {"https://api.z.ai/api/anthropic"}

\* the base URLs of the model that contain "openai" or "azure"
OpenAILike == {"https://api.openai.com/v1"}

\* detectCurrentProvider, lines 464-484 (LoadSettings never leaves Env nil)
detectCurrentProvider(settings) ==
    IF "ANTHROPIC_BASE_URL" \in DOMAIN settings.Env
       /\ settings.Env["ANTHROPIC_BASE_URL"].t # "null"
       /\ settings.Env["ANTHROPIC_BASE_URL"] # JStr("")
    THEN LET baseURLStr == Fmt(settings.Env["ANTHROPIC_BASE_URL"]).s
         IN  IF baseURLStr \in GLMLike THEN "glm"
             ELSE IF baseURLStr \in OpenAILike THEN "openai"
             ELSE "external"
    ELSE "anthropic"

\* cfg.Providers[name], the zero value when the map has no such key
ProviderOf(c, name) ==
    IF name \in DOMAIN c.Providers THEN c.Providers[name]
    ELSE ProviderConfig("", "", EmptyMap)

\* lines 560-571: the default-model keys of the categories the map has
WithModelMap(env, modelMap) ==
    LET cats == {"haiku", "sonnet", "opus"} \cap DOMAIN modelMap
    IN  [k \in DOMAIN env \cup {ModelEnvKey(c) : c \in cats} |->
            IF \E c \in cats : ModelEnvKey(c) = k
            THEN JStr(modelMap[CHOOSE c \in cats : ModelEnvKey(c) = k])
            ELSE env[k]]

\* CleanupOldSnapshots(snapshotsDir, 5), line 525
KeepSnapshots == 5

\* the env when the keys of the previous provider are left in place
ProviderEnvOnTop(c, oldEnv) ==
    LET provider == ProviderOf(c, c.Provider)
    IN  IF c.Provider = anthropicProvider
        THEN IF provider.Token # ""
             THEN Put(oldEnv, "ANTHROPIC_AUTH_TOKEN", JStr(provider.Token))
             ELSE oldEnv
        ELSE WithModelMap(
                 Put(Put(oldEnv, "ANTHROPIC_AUTH_TOKEN", JStr(provider.Token)),
                     "ANTHROPIC_BASE_URL", JStr(provider.BaseURL)),
                 provider.ModelMap)

\* lines 528-572: the env of the settings for the provider c makes active
ProviderEnv(c, oldEnv) ==
    LET cleared == Without(oldEnv, ReservedKeys)
        provider == ProviderOf(c, c.Provider)
    IN  IF c.Provider = anthropicProvider
        THEN IF provider.Token # ""
             THEN Put(cleared, "ANTHROPIC_AUTH_TOKEN", JStr(provider.Token))
             ELSE cleared
        ELSE WithModelMap(
                 Put(Put(cleared, "ANTHROPIC_AUTH_TOKEN", JStr(provider.Token)),
                     "ANTHROPIC_BASE_URL", JStr(provider.BaseURL)),
                 provider.ModelMap)

\* generateClaudeSettings, switch.go lines 498-576; fault names the write that
\* fails, if one does
generateClaudeSettings(c, file, dir, now, fault) ==
    LET l == LoadSettings(file)
    IN  IF ~l.ok THEN [ok |-> FALSE, file |-> file, dir |-> dir]
        ELSE
        LET settings == l.settings
            currentProvider == detectCurrentProvider(settings)
            snap == CreateSnapshot(file, dir, currentProvider, now,
                                   IF fault = "snapshot" THEN "open" ELSE "none")
            cleaned == CleanupOldSnapshots(snap.dir, KeepSnapshots)
            r == SaveSettings(file, [settings EXCEPT !.Env = ProviderEnv(c, @)],
                              IF fault = "settings" THEN "open" ELSE "none")
        IN  [ok |-> r.ok, file |-> r.file, dir |-> cleaned]

\* Manager.SaveSettings, manager.go lines 325-372: config.ClaudeSettings has
\* the one field env; the document goes to a temporary file that is renamed
ManagerSaveSettings(old, env, fault) ==
    IF fault = "open" THEN [ok |-> FALSE, file |-> old]
    ELSE [ok |-> TRUE, file |-> JSONFile([k \in {"env"} |-> JObj(env)])]

\* fmt.Sprintf("%d", timeout*1000), the default of 300 s taken for 0
TimeoutMs(timeoutSeconds) ==
    IF timeoutSeconds \in {0, 300} THEN "300000" ELSE "3000000"

\* f with the entries of g added or replaced
Override(f, g) ==
    [k \in DOMAIN f \cup DOMAIN g |-> IF k \in DOMAIN g THEN g[k] ELSE f[k]]

\* generateClaudeSettings, part_006 lines 269-323: the outcomes of a call,
\* each [ok, cfgFile, file]
generateClaudeSettingsV2(tomlFile, providerName, file, now, fault) ==
    {IF ~l.ok \/ providerName \notin DOMAIN l.cfg.providers
     THEN [ok |-> FALSE, cfgFile |-> l.file, file |-> file]
     ELSE
     LET c == l.cfg
         provider == c.providers[providerName]
         auth == IF provider.auth.method = AuthMethodAPIKey
                 THEN [k \in {"ANTHROPIC_AUTH_TOKEN", "ANTHROPIC_BASE_URL"} |->
                          IF k = "ANTHROPIC_AUTH_TOKEN" THEN JChars(provider.auth.apiKey)
                          ELSE JStr(provider.auth.baseURL)]
                 ELSE [k \in {"ANTHROPIC_BASE_URL"} |-> JStr("")]
         mapped == {cat \in DOMAIN c.active.modelMapping :
                       c.active.modelMapping[cat] \in DOMAIN c.models}
         models == [k \in {ModelEnvKey(cat) : cat \in mapped} |->
                      JStr(c.models[c.active.modelMapping[
                               CHOOSE cat \in mapped : ModelEnvKey(cat) = k]].id)]
         envVars == [k \in DOMAIN provider.envVars |-> JStr(provider.envVars[k])]
         env == Override(Override(auth, models), envVars)
         timed == IF "API_TIMEOUT_MS" \in DOMAIN env THEN env
                  ELSE Put(env, "API_TIMEOUT_MS", JStr(TimeoutMs(provider.auth.timeoutSeconds)))
         r == ManagerSaveSettings(file, timed, fault)
     IN  [ok |-> r.ok, cfgFile |-> l.file, file |-> r.file]
     : l \in LoadConfig(tomlFile, now)}

----------------------------------------------------------------------------
(* The settings document regenerated for a newly active provider *)

\* a settings document an external provider was generated into, with a key
\* and a field of the user's own
DocGLM ==
    [k \in {"theme", "env"} |->
        IF k = "theme" THEN JStr("dark")
        ELSE JObj([e \in {"ANTHROPIC_BASE_URL", "ANTHROPIC_AUTH_TOKEN", "FOO"} |->
                      IF e = "ANTHROPIC_BASE_URL" THEN JStr("https://api.z.ai/api/anthropic")
                      ELSE IF e = "ANTHROPIC_AUTH_TOKEN" THEN JStr("tok-old")
                      ELSE JStr("1")])]

GenFiles == {NoSettings, BadFile, JSONFile(DocPlain), JSONFile(DocOdd), JSONFile(DocGLM)}

\* config.Config as runSwitch hands it on: the anthropic provider with or
\* without a token, an external provider configured with token and base URL
Config3(provider, token) ==
    [Provider |-> provider,
     Providers |-> [n \in {"anthropic", "glm"} |->
                      IF n = "anthropic" THEN ProviderConfig(token, "", EmptyMap)
                      ELSE ProviderConfig("tok-glm", "https://api.z.ai/api/anthropic",
                               [c \in {"haiku", "sonnet"} |->
                                   IF c = "haiku" THEN "glm-4.5-air" ELSE "glm-4.6"])]]

Gen3Configs == {Config3("anthropic", ""), Config3("anthropic", "sk-ant"), Config3("glm", "")}

\* config.toml after switchProvider made p the active provider
ConfigFileFor(p, key, sec) ==
    LET c == SetActiveProvider(SeedConfig("anthropic", DefaultMapping, key, sec, "default"),
                               p, 0).cfg
    IN  (CHOOSE r \in SaveConfig(c, AbsentFile, 0) : TRUE).file

GenConfigFiles ==
    {AbsentFile, ConfigFileFor("claude-code", KeyShort, TRUE),
     ConfigFileFor("glm", KeyShort, FALSE), ConfigFileFor("glm", KeyLong, TRUE)}

GenFaults == {"none", "snapshot", "settings"}

\* generator runs in a behaviour
MaxGen == 2

InitGen ==
    /\ SwIdle
    /\ SaveIdle
    /\ cfg = NilCfg
    /\ cfgFile \in GenConfigFiles
    /\ last = [op |-> "none"]
    /\ steps = 0
    /\ ob = IdleOnboard
    /\ settingsFile \in GenFiles
    /\ snapshots = {}
    /\ clock = 1
    /\ lastSet = NoCall

\* the auth method of the provider a config.Config makes active
AuthOf3(c) ==
    IF c.Provider = anthropicProvider THEN AuthMethodSubscription ELSE AuthMethodAPIKey

\* the model each category has in the model map of the provider a
\* config.Config makes active (none for the anthropic provider)
ModelsOf3(c) ==
    IF c.Provider = anthropicProvider THEN EmptyMap
    ELSE [cat \in DOMAIN ProviderOf(c, c.Provider).ModelMap |->
             JStr(ProviderOf(c, c.Provider).ModelMap[cat])]

\* generateClaudeSettings(cfg, quiet) of switch.go
DoGenerate(c, fault) ==
    /\ lastSet.n < MaxGen
    /\ LET r == generateClaudeSettings(c, settingsFile, snapshots, clock, fault)
       IN  /\ settingsFile' = r.file
           /\ snapshots' = r.dir
           /\ lastSet' = [Called("generateClaudeSettings", c.Provider, 0, r.ok)
                             EXCEPT !.prior = settingsFile, !.auth = AuthOf3(c),
                                    !.n = @ + 1,
                                    !.hasSecret = ProviderOf(c, c.Provider).Token # "",
                                    !.secret = JStr(ProviderOf(c, c.Provider).Token),
                                    !.url = JStr(ProviderOf(c, c.Provider).BaseURL),
                                    !.models = ModelsOf3(c)]
    /\ UNCHANGED clock
    /\ UNCHANGED <<cfgVars, saveVars, swVars>>

\* the provider a config.toml makes active
ActiveIn(file, now) == {l.cfg.active.provider : l \in {x \in LoadConfig(file, now) : x.ok}}

\* the model each category has in the active mapping of a config.toml
ModelsOfActive(file, now) ==
    LET c == (CHOOSE l \in LoadConfig(file, now) : l.ok).cfg
    IN  [cat \in {x \in DOMAIN c.active.modelMapping :
                     c.active.modelMapping[x] \in DOMAIN c.models} |->
            JStr(c.models[c.active.modelMapping[cat]].id)]

\* generateClaudeSettings(tomlManager, providerName) of part_006, called as
\* runSwitch calls it: for the provider switchProvider has just made active
DoGenerateV2(providerName, fault) ==
    /\ lastSet.n < MaxGen
    /\ providerName \in ActiveIn(cfgFile, clock)
    /\ \E o \in generateClaudeSettingsV2(cfgFile, providerName, settingsFile, clock, fault) :
          LET provider == (CHOOSE l \in LoadConfig(cfgFile, clock) : l.ok)
                              .cfg.providers[providerName]
          IN  /\ settingsFile' = o.file
              /\ cfgFile' = o.cfgFile
              /\ lastSet' = [Called("generateClaudeSettingsV2", providerName, 0, o.ok)
                                EXCEPT !.prior = settingsFile,
                                       !.n = @ + 1,
                                       !.auth = provider.auth.method,
                                       !.hasSecret = provider.auth.apiKey # <<>>,
                                       !.secret = JChars(provider.auth.apiKey),
                                       !.url = JStr(provider.auth.baseURL),
                                       !.models = ModelsOfActive(cfgFile, clock)]
    /\ UNCHANGED <<snapshots, clock>>
    /\ UNCHANGED <<cfg, last, steps, ob, saveVars, swVars>>

NextGen ==
    \/ \E providerName \in ProviderArgs, fault \in {"none", "open"} :
           DoGenerateV2(providerName, fault)
    \/ \E c \in Gen3Configs, fault \in GenFaults : DoGenerate(c, fault)
    \/ Tick

SpecGen == InitGen /\ [][NextGen]_vars

----------------------------------------------------------------------------
(* Claims about the generated settings document *)

\* the env object of a settings file, empty when it has none
EnvOf(file) ==
    IF file.exists /\ ~file.bad /\ "env" \in DOMAIN file.doc /\ file.doc["env"].t = "object"
    THEN file.doc["env"].m ELSE EmptyMap

\* a generator ran and returned nil
Generated ==
    /\ lastSet.op \in {"generateClaudeSettings", "generateClaudeSettingsV2"}
    /\ lastSet.ok

\* C2: regenerating the settings document for a newly active provider keeps
\* every top-level field other than env, and every env key outside the
\* reserved set, with its value unchanged.
C2_UnrelatedFieldsKept ==
    Generated =>
        /\ \A k \in DOMAIN lastSet.prior.doc \ {"env"} :
               k \in DOMAIN settingsFile.doc /\ settingsFile.doc[k] = lastSet.prior.doc[k]
        /\ \A e \in DOMAIN EnvOf(lastSet.prior) \ ReservedKeys :
               e \in DOMAIN EnvOf(settingsFile)
                   /\ EnvOf(settingsFile)[e] = EnvOf(lastSet.prior)[e]

\* C10: when the active provider authenticates by subscription, the generated
\* document has no base-URL key at all and none of the default-model keys.
C10_SubscriptionOmitsKeys ==
    (Generated /\ lastSet.auth = AuthMethodSubscription) =>
        DOMAIN EnvOf(settingsFile) \cap (ReservedKeys \ {"ANTHROPIC_AUTH_TOKEN"}) = {}

\* C11: for an api-key provider the generated document has the auth-token
\* key if and only if the provider has a non-empty secret, the value then
\* being that secret; a missing secret gives a document without the key;
\* the base-URL key always equals the provider's configured URL.
C11_TokenIffSecret ==
    (Generated /\ lastSet.auth = AuthMethodAPIKey) =>
        LET env == EnvOf(settingsFile)
        IN  /\ ("ANTHROPIC_AUTH_TOKEN" \in DOMAIN env) <=> lastSet.hasSecret
            /\ lastSet.hasSecret => env["ANTHROPIC_AUTH_TOKEN"] = lastSet.secret
            /\ "ANTHROPIC_BASE_URL" \in DOMAIN env
            /\ env["ANTHROPIC_BASE_URL"] = lastSet.url

\* the value the newly active provider gives a reserved key
DerivedValue(k) ==
    IF k = "ANTHROPIC_AUTH_TOKEN" THEN {lastSet.secret}
    ELSE IF k = "ANTHROPIC_BASE_URL" THEN {lastSet.url}
    ELSE {lastSet.models[cat] : cat \in {x \in DOMAIN lastSet.models : ModelEnvKey(x) = k}}

----------------------------------------------------------------------------
(* internal/config/config.go : config.LoadConfig and config.SaveConfig over *)
(* config.Config, whose provider fields are all omitempty                   *)

\* the keys the encoder writes for a provider: the fields that are not empty
WrittenKeys(p) ==
    (IF p.Token # "" THEN {"token"} ELSE {})
        \cup (IF p.BaseURL # "" THEN {"base_url"} ELSE {})
        \cup (IF DOMAIN p.ModelMap # {} THEN {"model_map"} ELSE {})

\* toml.NewEncoder(&buf).Encode(config), config.go lines 78-83
EncodeConfig(c) ==
    [provider |-> c.Provider,
     providers |-> [n \in DOMAIN c.Providers |->
                      [k \in WrittenKeys(c.Providers[n]) |->
                          IF k = "token" THEN [s |-> c.Providers[n].Token, m |-> EmptyMap]
                          ELSE IF k = "base_url"
                          THEN [s |-> c.Providers[n].BaseURL, m |-> EmptyMap]
                          ELSE [s |-> "", m |-> c.Providers[n].ModelMap]]]]

\* toml.Unmarshal(data, config) into NewConfig(), config.go lines 60-63: a
\* field the table lacks keeps its zero value, a provider the file lacks
\* keeps the entry NewConfig made
DecodeConfig(doc) ==
    [Provider |-> doc.provider,
     Providers |->
        Override(NewConfig.Providers,
                 [n \in DOMAIN doc.providers |->
                     ProviderConfig(
                         IF "token" \in DOMAIN doc.providers[n]
                         THEN doc.providers[n]["token"].s ELSE "",
                         IF "base_url" \in DOMAIN doc.providers[n]
                         THEN doc.providers[n]["base_url"].s ELSE "",
                         IF "model_map" \in DOMAIN doc.providers[n]
                         THEN doc.providers[n]["model_map"].m ELSE EmptyMap)])]

\* config.toml that does not parse
BadConfigFile == [NoConfigFile EXCEPT !.exists = TRUE, !.bad = TRUE]

\* config.LoadConfig, config.go lines 45-66
configLoadConfig(file) ==
    IF ~file.exists THEN [ok |-> TRUE, cfg |-> NewConfig]
    ELSE IF file.bad THEN [ok |-> FALSE, cfg |-> NewConfig]
    ELSE [ok |-> TRUE, cfg |-> DecodeConfig(file.doc)]

\* config.SaveConfig, config.go lines 69-91: os.WriteFile on the file itself;
\* when it cannot open the file for writing, nothing changes
configSaveConfig(old, c, fault) ==
    IF fault = "open" THEN [ok |-> FALSE, file |-> old]
    ELSE [ok |-> TRUE, file |-> [exists |-> TRUE, bad |-> FALSE, doc |-> EncodeConfig(c)]]

----------------------------------------------------------------------------
(* internal/config/manager.go : the backups of settings.json *)

\* Manager.config.MaxBackups as NewManager sets it
MaxBackups == 10

\* "backup-<timestamp>.json" split at its separator
BackupName(timestamp) == <<"backup", timestamp>>

\* ListBackups, manager.go lines 446-485: os.ReadDir returns the entries
\* sorted by name, which is by timestamp
\* the order of os.ReadDir on the file names: by the timestamp, which has a
\* fixed width; of two names with one timestamp, "backup-<ts>-<description>.json"
\* comes before "backup-<ts>.json" ('-' sorts before '.')
BackupBefore(a, b) == a[2] < b[2] \/ (a[2] = b[2] /\ Len(a) >= Len(b))

RECURSIVE ListBackups(_)
ListBackups(dir) ==
    IF dir = {} THEN <<>>
    ELSE LET first == CHOOSE b \in dir : \A o \in dir : BackupBefore(b.name, o.name)
         IN  <<first>> \o ListBackups(dir \ {first})

\* cleanOldBackups removing the files at the end of the list instead
cleanNewestBackups(dir) ==
    LET list == ListBackups(dir)
    IN  IF Len(list) <= MaxBackups THEN dir
        ELSE dir \ {list[i] : i \in (MaxBackups + 1)..Len(list)}

\* cleanOldBackups, manager.go lines 505-523
cleanOldBackups(dir) ==
    LET list == ListBackups(dir)
    IN  IF Len(list) <= MaxBackups THEN dir
        ELSE dir \ {list[i] : i \in 1..(Len(list) - MaxBackups)}

\* CreateBackup, manager.go lines 398-443: copyFile copies the bytes of
\* settings.json, whatever they are
CreateBackup(file, dir, now, fault) ==
    IF ~file.exists \/ fault = "open" THEN [ok |-> FALSE, dir |-> dir]
    ELSE [ok |-> TRUE,
          dir |-> cleanOldBackups({b \in dir : b.name # BackupName(now)}
                                      \cup {[name |-> BackupName(now), file |-> file]})]

\* time.Now().Format("20060102-150405"), manager.go line 404: the wall clock
\* of the local time zone, zone being its offset from UTC
LocalTime(now, zone) == now + zone

\* ListBackups, manager.go lines 467-469, and time.Parse("20060102-150405",
\* backup.Timestamp), backup.go line 90: Timestamp is all of the id after
\* "backup-", so a description suffix makes the parse fail; a layout without
\* a zone is read as UTC, whatever zone wrote it
ParseTimestamp(name) == [ok |-> Len(name) = 2, t |-> name[2]]

\* the id CreateWithDescription makes of a backup id, backup.go line 36
DescribedName(name, description) == <<name[1], name[2], description>>

\* BackupManager.CreateWithDescription, backup.go lines 25-48: CreateBackup,
\* then the file is renamed; a rename that fails leaves the id as it was
CreateWithDescription(file, dir, now, description, fault) ==
    LET r == CreateBackup(file, dir, now, fault)
        id == BackupName(now)
        newID == DescribedName(id, description)
    IN  IF ~r.ok THEN [ok |-> FALSE, dir |-> dir, id |-> <<>>]
        ELSE IF description = "" \/ ~\E b \in r.dir : b.name = id
             THEN [ok |-> TRUE, dir |-> r.dir, id |-> id]
        ELSE [ok |-> TRUE, id |-> newID,
              dir |-> {b \in r.dir : b.name \notin {id, newID}}
                          \cup {[name |-> newID, file |-> file]}]

\* BackupManager.DeleteBackup, backup.go lines 69-77
DeleteBackup(dir, backupID) == {b \in dir : b.name # backupID}

\* BackupManager.PruneBackups, backup.go lines 80-104: now is time.Now()
RECURSIVE PruneList(_, _, _)
PruneList(list, dir, cutoff) ==
    IF list = <<>> THEN dir
    ELSE LET timestamp == ParseTimestamp(Head(list).name)
         IN  IF timestamp.ok /\ timestamp.t < cutoff
             THEN PruneList(Tail(list), DeleteBackup(dir, Head(list).name), cutoff)
             ELSE PruneList(Tail(list), dir, cutoff)

PruneBackups(dir, now, olderThan) == PruneList(ListBackups(dir), dir, now - olderThan)

\* Manager.RestoreBackup, manager.go lines 488-502: copyFile writes the
\* bytes of the backup over settings.json
RestoreBackup(dir, file, backupID, fault) ==
    IF ~\E b \in dir : b.name = backupID THEN [ok |-> FALSE, file |-> file]
    ELSE IF fault = "open" THEN [ok |-> FALSE, file |-> file]
    ELSE [ok |-> TRUE, file |-> (CHOOSE b \in dir : b.name = backupID).file]

\* TOMLManagerV2.SetActiveProvider, toml_manager.go lines 149-160: the
\* outcomes of a call, each [ok, file]
tomlSetActiveProvider(file, name, now) ==
    UNION {IF ~l.ok THEN {[ok |-> FALSE, file |-> l.file]}
           ELSE LET ch == SetActiveProvider(l.cfg, name, now)
                IN  IF ~ch.ok THEN {[ok |-> FALSE, file |-> l.file]}
                    ELSE {[ok |-> r.ok, file |-> r.file] : r \in SaveConfig(ch.cfg, l.file, now)}
           : l \in LoadConfig(file, now)}

----------------------------------------------------------------------------
(* `cflip switch <provider>` step by step: runSwitch over config.Config      *)
(* (switch.go lines 253-315, with generateClaudeSettings lines 498-576) and *)
(* runSwitch over the TOML configuration (part_006 lines 41-102)            *)

\* the order the steps are stated in: the settings are captured and
\* written first, the configuration is persisted last
SwitchStepsAsStated(gen) ==
    IF gen = "config" THEN <<"load", "snapshot", "cleanup", "write", "persist">>
    ELSE <<"backup", "write", "persist">>

\* the steps of runSwitch that touch a file, in program order, once the
\* target provider has passed the checks
SwitchSteps(gen) ==
    IF gen = "config" THEN <<"persist", "load", "snapshot", "cleanup", "write">>
    ELSE <<"backup", "persist", "write">>

\* the switch is at the given step
At(gen, step) ==
    /\ sw.pc = "run"
    /\ sw.gen = gen
    /\ SwitchSteps(gen)[sw.i] = step

\* an error return
Failed == [sw EXCEPT !.pc = "failed"]

\* the step is over; events are what it did to the files
Advance(s, events) ==
    [s EXCEPT !.log = @ \o events,
              !.i = @ + 1,
              !.pc = IF s.i = Len(SwitchSteps(s.gen)) THEN "done" ELSE "run"]

\* a failing capture step taken for an error return of the switch
AfterCaptureFatal(s, ok, events) ==
    IF ok THEN Advance(s, events)
    ELSE [s EXCEPT !.pc = "failed", !.log = @ \o <<"warning">>]

\* switch.go lines 517-527, part_006 lines 83-86: a step that captures or
\* tidies the settings history is over; when it failed, a warning is all
\* there is (printed unless --quiet, for the backup only with --verbose)
AfterCapture(s, ok, events) == Advance(s, IF ok THEN events ELSE <<"warning">>)

\* what the user types when asked
NoAnswers == [token |-> "", baseURL |-> "", models |-> EmptyMap]

SwAnswers ==
    {NoAnswers,
     [token |-> "tok-new", baseURL |-> "https://api.z.ai/api/anthropic",
      models |-> [c \in {"haiku"} |-> "glm-4.5-air"]],
     [token |-> "tok-new", baseURL |-> "", models |-> EmptyMap]}

\* configureExternalProvider, switch.go lines 355-384: [ok, cfg]
configureExternalProvider(c, providerName, answers) ==
    LET provider == ProviderOf(c, providerName)
        token == IF provider.Token # "" THEN provider.Token ELSE answers.token
        baseURL == IF provider.BaseURL # "" THEN provider.BaseURL ELSE answers.baseURL
    IN  IF token = "" \/ baseURL = "" THEN [ok |-> FALSE, cfg |-> c]
        ELSE [ok |-> TRUE,
              cfg |-> [c EXCEPT !.Providers =
                         Put(@, providerName,
                             ProviderConfig(token, baseURL,
                                 Override(provider.ModelMap, answers.models)))]]

\* runSwitch lines 253-298: load the configuration, return when the target
\* is the provider in use, configure the target, make it the provider of
\* the configuration in memory
SwBegin(target, answers) ==
    /\ sw.pc = "idle"
    /\ sw.gen = "config"
    /\ LET l == configLoadConfig(configFile)
           conf == IF target # anthropicProvider
                   THEN configureExternalProvider(l.cfg, target, answers)
                   ELSE [ok |-> TRUE, cfg |-> l.cfg]
       IN  sw' = IF ~l.ok THEN Failed
                 ELSE IF l.cfg.Provider = target
                 THEN [sw EXCEPT !.pc = "done", !.target = target]
                 ELSE IF ~conf.ok THEN Failed
                 ELSE [sw EXCEPT !.pc = "run", !.target = target, !.i = 1,
                                 !.c = [conf.cfg EXCEPT !.Provider = target]]
    /\ UNCHANGED <<configFile, backups, bk>>
    /\ UNCHANGED <<cfgVars, saveVars, setVars>>

\* config.SaveConfig(cfg), lines 300-303
SwPersist(fault) ==
    /\ At("config", "persist")
    /\ LET r == configSaveConfig(configFile, sw.c, fault)
       IN  /\ configFile' = r.file
           /\ sw' = IF r.ok THEN Advance(sw, <<"config">>) ELSE Failed
    /\ UNCHANGED <<backups, bk>>
    /\ UNCHANGED <<cfgVars, saveVars, setVars>>

\* generateClaudeSettings lines 503-507: LoadSettings(settingsPath)
SwLoad ==
    /\ At("config", "load")
    /\ LET l == LoadSettings(settingsFile)
       IN  sw' = IF l.ok THEN [Advance(sw, <<>>) EXCEPT !.settings = l.settings] ELSE Failed
    /\ UNCHANGED <<configFile, backups, bk>>
    /\ UNCHANGED <<cfgVars, saveVars, setVars>>

\* lines 509-522: CreateSnapshot for the provider the settings show; its
\* failure is a warning
SwSnapshot(fault) ==
    /\ At("config", "snapshot")
    /\ LET r == CreateSnapshot(settingsFile, snapshots,
                               detectCurrentProvider(sw.settings), clock, fault)
       IN  /\ snapshots' = r.dir
           /\ sw' = [AfterCapture(sw, r.ok, <<"snapshot">>) EXCEPT
                        !.taken = IF r.ok /\ r.dir # snapshots
                                  THEN SnapshotName(detectCurrentProvider(sw.settings), clock)
                                  ELSE <<>>]
    /\ UNCHANGED <<settingsFile, clock, lastSet>>
    /\ UNCHANGED <<configFile, backups, bk>>
    /\ UNCHANGED <<cfgVars, saveVars>>

\* lines 524-527: CleanupOldSnapshots(snapshotsDir, 5); it fails when the
\* directory cannot be read, and then deletes nothing
SwCleanup(fault) ==
    /\ At("config", "cleanup")
    /\ snapshots' = IF fault = "none" THEN CleanupOldSnapshots(snapshots, KeepSnapshots)
                    ELSE snapshots
    /\ sw' = AfterCapture(sw, fault = "none", <<>>)
    /\ UNCHANGED <<settingsFile, clock, lastSet>>
    /\ UNCHANGED <<configFile, backups, bk>>
    /\ UNCHANGED <<cfgVars, saveVars>>

\* lines 528-575: the env of the loaded settings is rebuilt for the provider
\* and SaveSettings writes the document
SwWrite(fault) ==
    /\ At("config", "write")
    /\ LET r == SaveSettings(settingsFile, [sw.settings EXCEPT !.Env = ProviderEnv(sw.c, @)],
                             fault)
       IN  /\ settingsFile' = r.file
           /\ sw' = IF r.ok THEN Advance(sw, <<"settings">>) ELSE Failed
    /\ UNCHANGED <<snapshots, clock, lastSet>>
    /\ UNCHANGED <<configFile, backups, bk>>
    /\ UNCHANGED <<cfgVars, saveVars>>

\* runSwitch of part_006, lines 45-81: load the configuration, return when
\* the target is the active provider, look the target up, ask for an API key
\* when the provider needs one and has none (the key typed goes into the
\* copy GetProviderByName returned, not into a file)
SwBeginV2(target, typed) ==
    /\ sw.pc = "idle"
    /\ sw.gen = "toml"
    /\ \E l \in LoadConfig(cfgFile, clock) :
          /\ cfgFile' = l.file
          /\ sw' = IF ~l.ok THEN Failed
                   ELSE IF l.cfg.active.provider = target
                   THEN [sw EXCEPT !.pc = "done", !.target = target]
                   ELSE IF target \notin DOMAIN l.cfg.providers THEN Failed
                   ELSE IF /\ l.cfg.providers[target].auth.method = AuthMethodAPIKey
                           /\ l.cfg.providers[target].auth.apiKey = <<>>
                           /\ ~typed
                   THEN Failed
                   ELSE [sw EXCEPT !.pc = "run", !.target = target, !.i = 1,
                                   !.typedKey =
                                       IF /\ l.cfg.providers[target].auth.method = AuthMethodAPIKey
                                          /\ l.cfg.providers[target].auth.apiKey = <<>>
                                       THEN KeyLong ELSE <<>>]
    /\ UNCHANGED <<configFile, backups, bk>>
    /\ UNCHANGED <<cfg, last, steps, ob, saveVars, setVars>>

\* lines 83-86: createClaudeBackup; its failure is at most a warning
SwBackup(fault) ==
    /\ At("toml", "backup")
    /\ LET r == CreateBackup(settingsFile, backups, LocalTime(clock, bk.zone), fault)
       IN  /\ backups' = r.dir
           /\ sw' = AfterCapture(sw, r.ok, <<"snapshot">>)
    /\ UNCHANGED <<configFile, bk>>
    /\ UNCHANGED <<cfgVars, saveVars, setVars>>

\* lines 88-91: switchProvider, which is tomlManager.SetActiveProvider
SwPersistV2 ==
    /\ At("toml", "persist")
    /\ \E r \in tomlSetActiveProvider(cfgFile, sw.target, clock) :
          /\ cfgFile' = r.file
          /\ sw' = IF r.ok THEN Advance(sw, <<"config">>) ELSE Failed
    /\ UNCHANGED <<configFile, backups, bk>>
    /\ UNCHANGED <<cfg, last, steps, ob, saveVars, setVars>>

\* lines 93-96: generateClaudeSettings(tomlManager, providerName)
SwWriteV2(fault) ==
    /\ At("toml", "write")
    /\ \E o \in generateClaudeSettingsV2(cfgFile, sw.target, settingsFile, clock, fault) :
          /\ settingsFile' = o.file
          /\ cfgFile' = o.cfgFile
          /\ sw' = IF o.ok THEN Advance(sw, <<"settings">>) ELSE Failed
    /\ UNCHANGED <<snapshots, clock, lastSet>>
    /\ UNCHANGED <<configFile, backups, bk>>
    /\ UNCHANGED <<cfg, last, steps, ob, saveVars>>

\* config.toml as config.SaveConfig wrote it
SwConfigFiles ==
    {NoConfigFile, BadConfigFile} \cup
    {configSaveConfig(NoConfigFile, c, "none").file :
        c \in {NewConfig, Config3("anthropic", "sk-ant"), Config3("glm", "")}}

\* the snapshot CreateSnapshot writes of a settings file
SnapshotOf(file, provider, timestamp) ==
    [name |-> SnapshotName(provider, timestamp),
     file |-> SaveSettings(NoSettings, LoadSettings(file).settings, "none").file]

\* the snapshots directory: empty, holding the snapshot of an earlier switch
\* away from glm, or holding as many glm snapshots as are kept
SwSnapshotDirs ==
    {{}, {SnapshotOf(JSONFile(DocGLM), "glm", 0)},
     {SnapshotOf(JSONFile(DocPlain), "glm", t - KeepSnapshots) : t \in 1..KeepSnapshots}}

\* the backup directory: empty, or holding as many backups as are kept
SwBackupDirs ==
    {{}, {[name |-> BackupName(t - MaxBackups), file |-> JSONFile(DocPlain)] :
             t \in 1..MaxBackups}}

SwTargets == {"anthropic", "glm", "custom"}

InitSwitch ==
    /\ SaveIdle
    /\ cfg = NilCfg
    /\ last = [op |-> "none"]
    /\ steps = 0
    /\ ob = IdleOnboard
    /\ settingsFile \in GenFiles
    /\ clock = 1
    /\ lastSet = NoCall
    /\ bk = IdleBk
    /\ \/ /\ sw = [IdleSwitch EXCEPT !.gen = "config", !.prior = settingsFile]
          /\ configFile \in SwConfigFiles
          /\ snapshots \in SwSnapshotDirs
          /\ cfgFile = AbsentFile
          /\ backups = {}
       \/ /\ sw = [IdleSwitch EXCEPT !.gen = "toml", !.prior = settingsFile]
          /\ cfgFile \in GenConfigFiles
          /\ backups \in SwBackupDirs
          /\ configFile = NoConfigFile
          /\ snapshots = {}

NextSwitch ==
    \/ \E target \in SwTargets, answers \in SwAnswers : SwBegin(target, answers)
    \/ \E fault \in WriteFaults : SwPersist(fault)
    \/ SwLoad
    \/ \E fault \in WriteFaults : SwSnapshot(fault)
    \/ \E fault \in WriteFaults : SwCleanup(fault)
    \/ \E fault \in WriteFaults : SwWrite(fault)
    \/ \E target \in ProviderArgs, typed \in BOOLEAN : SwBeginV2(target, typed)
    \/ \E fault \in WriteFaults : SwBackup(fault)
    \/ SwPersistV2
    \/ \E fault \in WriteFaults : SwWriteV2(fault)
    \/ Tick

SpecSwitch == InitSwitch /\ [][NextSwitch]_vars

----------------------------------------------------------------------------
(* Claims about the order of the steps of a switch *)

\* where in the switch the event happened
Positions(event) == {j \in DOMAIN sw.log : sw.log[j] = event}

\* every snapshot of the switch was taken before it wrote the settings
SnapshotBeforeWrite ==
    \A j \in Positions("settings") : \A k \in Positions("snapshot") : k < j

\* the provider the configuration file makes active
ActiveSelection ==
    IF sw.gen = "config" THEN {configLoadConfig(configFile).cfg.Provider}
    ELSE ActiveIn(cfgFile, clock)

\* the snapshots and backups this switch has taken
TakenNow ==
    {f \in snapshots : extractTimestampFromFilename(f.name) >= 1}
        \cup {b \in backups : b.name[2] >= 1}

\* C8 as stated: in a provider switch the snapshot of the current settings
\* document is taken before the new settings document is written, and the
\* configuration file's updated active selection is persisted only after
\* the new settings document has been written, never before it.
C8_StatedOrder ==
    /\ SnapshotBeforeWrite
    /\ \A j \in Positions("config") : \E k \in Positions("settings") : k < j

\* C8: in a provider switch the snapshot of the current settings document is
\* taken before the new settings document is written, and the configuration
\* file's updated active selection is persisted before the new settings
\* document is written, never after it: when the settings document changes,
\* the configuration file already names the target, and what the switch
\* captured is the document as it was when the switch began.
C8_PersistedBeforeWritten ==
    /\ SnapshotBeforeWrite
    /\ \A j \in Positions("settings") :
          /\ \E k \in Positions("config") : k < j
          /\ \A k \in Positions("config") : k < j
    /\ settingsFile # sw.prior => sw.target \in ActiveSelection
    /\ \A f \in TakenNow :
          LoadSettings(f.file).settings = LoadSettings(sw.prior).settings

\* C8: a switch ran to its end: it captured the settings document it found,
\* persisted the target as the active provider and wrote a different
\* settings document.
C8_SwitchCompleted ==
    /\ sw.pc = "done"
    /\ Positions("snapshot") # {}
    /\ Positions("config") # {}
    /\ Positions("settings") # {}
    /\ TakenNow # {}
    /\ settingsFile # sw.prior
    /\ sw.target \in ActiveSelection

\* the steps of a switch that capture or tidy the history of settings.json
CaptureSteps == {"snapshot", "cleanup", "backup"}

\* C22: a failure of CreateSnapshot, CleanupOldSnapshots or CreateBackup
\* during a switch never prevents the new settings document from being
\* written: the switch never returns an error at such a step, it goes on to
\* the steps that follow, and a switch that ran to its end after a warning
\* has written the settings document.
C22_CaptureFailureNotFatal ==
    /\ (sw.pc = "failed" /\ sw.i > 0) => SwitchSteps(sw.gen)[sw.i] \notin CaptureSteps
    /\ (sw.pc = "done" /\ Positions("warning") # {}) => Positions("settings") # {}
    /\ (sw.pc = "run" /\ Positions("warning") # {}) =>
           \E i \in sw.i..Len(SwitchSteps(sw.gen)) : SwitchSteps(sw.gen)[i] = "write"

\* C22: a switch whose snapshot or backup failed ran to its end and wrote
\* a different settings document
C22_WroteAfterWarning ==
    /\ sw.pc = "done"
    /\ Positions("warning") # {}
    /\ Positions("snapshot") = {}
    /\ Positions("settings") # {}
    /\ settingsFile # sw.prior

\* C28: when a switch to an api-key provider for which the user typed the
\* secret during that switch completes successfully, the auth-token value of
\* the settings document is that secret.
C28_TypedSecretInSettings ==
    (sw.gen = "toml" /\ sw.pc = "done" /\ sw.typedKey # <<>> /\ Positions("settings") # {}) =>
        /\ "ANTHROPIC_AUTH_TOKEN" \in DOMAIN EnvOf(settingsFile)
        /\ EnvOf(settingsFile)["ANTHROPIC_AUTH_TOKEN"] = JChars(sw.typedKey)

\* C29: the snapshot that CreateSnapshot has just written for the switch in
\* progress is still on disk after the CleanupOldSnapshots(5) call that
\* follows it, however many snapshots of that tag there were, so that the
\* settings document of before the switch can be recovered from a snapshot.
C29_FreshSnapshotSurvivesCleanup ==
    (/\ sw.gen = "config"
     /\ sw.taken # <<>>
     /\ sw.pc \in {"run", "done"}
     /\ sw.pc = "run" => SwitchSteps(sw.gen)[sw.i] = "write") =>
        \E f \in snapshots : f.name = sw.taken

----------------------------------------------------------------------------
(* internal/config/backup.go, internal/config/manager.go : the backups of   *)
(* settings.json as BackupManager and Manager keep them, each call whole.   *)
(* The clock counts seconds of UTC; file names carry the local wall clock.  *)

\* offsets of the local time zone from UTC
Zones == {-1, 0, 1}

\* the olderThan arguments given to PruneBackups
MaxAges == {2}

BkDescriptions == {"note"}

\* what settings.json may hold: copyFile copies bytes and parses nothing
BkFiles == {JSONFile(DocPlain), JSONFile(DocOdd)}

\* a backup written at instant t by a run in the zone
BkSeed(t, zone) == [name |-> BackupName(LocalTime(t, zone)), file |-> JSONFile(DocPlain)]

\* the backup directory when a command starts: empty, or holding as many
\* backups as are kept, written one a second, one of them with a description
BkDirs(zone) ==
    {{},
     {IF t = 6 THEN [BkSeed(t - MaxBackups, zone) EXCEPT
                        !.name = DescribedName(@, "note")]
      ELSE BkSeed(t - MaxBackups, zone) : t \in 1..MaxBackups}}

\* the ids still in the directory, with the content each was returned for
StillThere(made, dir) == {m \in made : \E b \in dir : b.name = m.name}

InitBackup ==
    /\ SaveIdle
    /\ CfgIdle
    /\ sw = IdleSwitch
    /\ configFile = NoConfigFile
    /\ snapshots = {}
    /\ clock = 1
    /\ lastSet = NoCall
    /\ settingsFile \in {NoSettings, JSONFile(DocOdd)}
    /\ \E zone \in Zones :
          /\ bk = [IdleBk EXCEPT !.zone = zone]
          /\ backups \in BkDirs(zone)

\* Manager.CreateBackup(); it fails when there is no settings.json
DoCreateBackup ==
    /\ bk.n < MaxOps
    /\ LET now == LocalTime(clock, bk.zone)
           r == CreateBackup(settingsFile, backups, now, "none")
           written == {b \in backups : b.name # BackupName(now)}
                          \cup {[name |-> BackupName(now), file |-> settingsFile]}
       IN  /\ backups' = r.dir
           /\ bk' = [bk EXCEPT !.op = "CreateBackup", !.ok = r.ok,
                        !.id = IF r.ok THEN BackupName(now) ELSE <<>>,
                        !.cutoff = 0, !.before = {},
                        !.removed = IF r.ok THEN written \ r.dir ELSE {},
                        !.made = IF r.ok
                                 THEN StillThere(@, r.dir)
                                          \cup {[name |-> BackupName(now), file |-> settingsFile]}
                                 ELSE @,
                        !.n = @ + 1]
    /\ UNCHANGED <<sw, configFile>>
    /\ UNCHANGED <<cfgVars, saveVars, setVars>>

\* BackupManager.CreateWithDescription(description)
DoCreateWithDescription(description) ==
    /\ bk.n < MaxOps
    /\ LET now == LocalTime(clock, bk.zone)
           r == CreateWithDescription(settingsFile, backups, now, description, "none")
           written == {b \in backups : b.name # BackupName(now)}
                          \cup {[name |-> BackupName(now), file |-> settingsFile]}
       IN  /\ backups' = r.dir
           /\ bk' = [bk EXCEPT !.op = "CreateWithDescription", !.ok = r.ok, !.id = r.id,
                        !.cutoff = 0, !.before = {},
                        !.removed = IF r.ok
                                    THEN written \ CreateBackup(settingsFile, backups, now, "none").dir
                                    ELSE {},
                        !.made = IF r.ok
                                 THEN StillThere(@, r.dir)
                                          \cup {[name |-> r.id, file |-> settingsFile]}
                                 ELSE @,
                        !.n = @ + 1]
    /\ UNCHANGED <<sw, configFile>>
    /\ UNCHANGED <<cfgVars, saveVars, setVars>>

\* BackupManager.PruneBackups(olderThan); cutoff is time.Now().Add(-olderThan)
DoPruneBackups(olderThan) ==
    /\ bk.n < MaxOps
    /\ backups' = PruneBackups(backups, clock, olderThan)
    /\ bk' = [bk EXCEPT !.op = "PruneBackups", !.ok = TRUE, !.id = <<>>,
                 !.cutoff = clock - olderThan, !.before = backups,
                 !.removed = backups \ backups',
                 !.made = StillThere(@, backups'),
                 !.n = @ + 1]
    /\ UNCHANGED <<sw, configFile>>
    /\ UNCHANGED <<cfgVars, saveVars, setVars>>

\* Manager.RestoreBackup(backupID)
DoRestoreBackup(backupID) ==
    /\ bk.n < MaxOps
    /\ LET r == RestoreBackup(backups, settingsFile, backupID, "none")
       IN  /\ settingsFile' = r.file
           /\ bk' = [bk EXCEPT !.op = "RestoreBackup", !.ok = r.ok, !.id = backupID,
                        !.cutoff = 0, !.before = {}, !.removed = {}, !.n = @ + 1]
    /\ UNCHANGED <<sw, configFile, backups>>
    /\ UNCHANGED <<snapshots, clock, lastSet>>
    /\ UNCHANGED <<cfgVars, saveVars>>

\* the ids a user may name: those handed out, the backup of instant 0, and
\* one that never existed
BkIds ==
    {m.name : m \in bk.made} \cup {BackupName(LocalTime(0, bk.zone)), BackupName(-20)}

NextBackup ==
    \/ DoCreateBackup
    \/ \E description \in BkDescriptions : DoCreateWithDescription(description)
    \/ \E olderThan \in MaxAges : DoPruneBackups(olderThan)
    \/ \E backupID \in BkIds : DoRestoreBackup(backupID)
    \/ \E file \in BkFiles : EditSettings(file)
    \/ Tick

SpecBackup == InitBackup /\ [][NextBackup]_vars

\* the instant a backup's file name stands for: its timestamp, read in the
\* time zone that wrote it
WrittenAt(b) == b.name[2] - bk.zone

\* C18: PruneBackups(olderThan) deletes exactly the backups whose file name
\* timestamp parses and lies before now - olderThan; every newer backup and
\* every backup whose timestamp does not parse (an id with a description
\* suffix) is still there afterwards.
C18_PrunesExactlyTheOld ==
    bk.op = "PruneBackups" =>
        backups = {b \in bk.before :
                      ~(ParseTimestamp(b.name).ok /\ WrittenAt(b) < bk.cutoff)}

C20_RestoreGivesBackContent ==
    [][(bk' # bk /\ bk'.op = "RestoreBackup" /\ bk'.ok) =>
          \A m \in bk.made : m.name = bk'.id => settingsFile' = m.file]_vars

\* C23: backup files are immutable once created: no later CreateBackup or
\* other operation overwrites the content of an existing backup file or
\* changes its id, also when two creations fall into the same second; an
\* existing file can only be deleted.
C23_BackupsImmutable ==
    [][\A b \in backups : (\E a \in backups' : a.name = b.name) => b \in backups']_vars

----------------------------------------------------------------------------
(* internal/config/types.go : Provider.Merge, whose result the earliest     *)
(* runSwitch hands to Manager.SaveSettings (switch.go lines 136-141)        *)

\* config.Provider
Provider(baseURL, models, envVars) ==
    [BaseURL |-> baseURL, Models |-> models, EnvVars |-> envVars]

\* Merge setting the provider's own keys after the EnvVars entries
MergeProviderOnTop(p, apiKey) ==
    LET cats == {"haiku", "sonnet", "opus"} \cap DOMAIN p.Models
        own == [k \in {"ANTHROPIC_AUTH_TOKEN", "ANTHROPIC_BASE_URL"}
                         \cup {ModelEnvKey(c) : c \in cats} |->
                   IF k = "ANTHROPIC_AUTH_TOKEN" THEN apiKey
                   ELSE IF k = "ANTHROPIC_BASE_URL" THEN p.BaseURL
                   ELSE p.Models[CHOOSE c \in cats : ModelEnvKey(c) = k]]
        env == Override(p.EnvVars, own)
    IN  IF "API_TIMEOUT_MS" \in DOMAIN env THEN env
        ELSE Put(env, "API_TIMEOUT_MS", "3000000")

\* Provider.Merge, types.go lines 77-114: the env of the settings it returns
Merge(p, apiKey) ==
    LET cats == {"haiku", "sonnet", "opus"} \cap DOMAIN p.Models
        own == [k \in {"ANTHROPIC_AUTH_TOKEN", "ANTHROPIC_BASE_URL"}
                         \cup {ModelEnvKey(c) : c \in cats} |->
                   IF k = "ANTHROPIC_AUTH_TOKEN" THEN apiKey
                   ELSE IF k = "ANTHROPIC_BASE_URL" THEN p.BaseURL
                   ELSE p.Models[CHOOSE c \in cats : ModelEnvKey(c) = k]]
        env == Override(own, p.EnvVars)
    IN  IF "API_TIMEOUT_MS" \in DOMAIN env THEN env
        ELSE Put(env, "API_TIMEOUT_MS", "3000000")

MergeKeys == {"test-api-key", ""}

MergeModels ==
    {[c \in cs |-> IF c = "haiku" THEN "test-haiku"
                   ELSE IF c = "sonnet" THEN "test-sonnet" ELSE "test-opus"] :
        cs \in SUBSET {"haiku", "sonnet", "opus"}}

\* EnvVars of a provider: none, a variable of its own, a timeout, and
\* entries under the keys Merge sets itself
MergeEnvVars ==
    {EmptyMap,
     [k \in {"CUSTOM_VAR"} |-> "custom_value"],
     [k \in {"CUSTOM_VAR", "API_TIMEOUT_MS"} |->
         IF k = "CUSTOM_VAR" THEN "custom_value" ELSE "60000"],
     [k \in {"CUSTOM_VAR", "ANTHROPIC_AUTH_TOKEN"} |->
         IF k = "CUSTOM_VAR" THEN "custom_value" ELSE "other-key"],
     [k \in {"ANTHROPIC_BASE_URL"} |-> "https://proxy.test.com"],
     [k \in {"ANTHROPIC_DEFAULT_SONNET_MODEL"} |-> "other-sonnet"]}

InitMerge ==
    /\ SwIdle
    /\ SaveIdle
    /\ CfgIdle
    /\ settingsFile = NoSettings
    /\ snapshots = {}
    /\ clock = 1
    /\ \E apiKey \in MergeKeys, models \in MergeModels, envVars \in MergeEnvVars :
          lastSet = [NoCall EXCEPT !.op = "input", !.secret = JStr(apiKey),
                                   !.url = JStr("https://api.test.com"),
                                   !.models = models, !.envVars = envVars]

\* settings := providerConfig.Merge(apiKey); configManager.SaveSettings(settings)
DoMerge ==
    /\ lastSet.op = "input"
    /\ LET p == Provider(lastSet.url.v, lastSet.models, lastSet.envVars)
           env == Merge(p, lastSet.secret.v)
           r == ManagerSaveSettings(settingsFile, [k \in DOMAIN env |-> JStr(env[k])], "none")
       IN  /\ settingsFile' = r.file
           /\ lastSet' = [lastSet EXCEPT !.op = "Merge", !.ok = r.ok]
    /\ UNCHANGED <<snapshots, clock>>
    /\ UNCHANGED <<cfgVars, saveVars, swVars>>

NextMerge == DoMerge

SpecMerge == InitMerge /\ [][NextMerge]_vars

\* the env Merge returned, as written
Merged == EnvOf(settingsFile)

\* the keys Merge sets from its argument and from BaseURL and Models, with
\* the values it sets them to
OwnKeys ==
    [k \in {"ANTHROPIC_AUTH_TOKEN", "ANTHROPIC_BASE_URL"}
             \cup {ModelEnvKey(c) : c \in {"haiku", "sonnet", "opus"} \cap DOMAIN lastSet.models} |->
        IF k = "ANTHROPIC_AUTH_TOKEN" THEN lastSet.secret
        ELSE IF k = "ANTHROPIC_BASE_URL" THEN lastSet.url
        ELSE JStr(lastSet.models[CHOOSE c \in DOMAIN lastSet.models : ModelEnvKey(c) = k])]

EnvVarsCarriedOver ==
    \A k \in DOMAIN lastSet.envVars :
        k \in DOMAIN Merged /\ Merged[k] = JStr(lastSet.envVars[k])

DefaultTimeout ==
    /\ "API_TIMEOUT_MS" \in DOMAIN Merged
    /\ Merged["API_TIMEOUT_MS"] = JStr("3000000") <=> "API_TIMEOUT_MS" \notin DOMAIN lastSet.envVars

\* C25: Provider.Merge(apiKey) returns an env in which the auth token equals
\* apiKey, the base URL equals BaseURL, each of haiku/sonnet/opus present in
\* Models sets its default-model key, every EnvVars entry is carried over,
\* and API_TIMEOUT_MS is "3000000" exactly when EnvVars does not supply it.
C25_MergeAsStated ==
    lastSet.op = "Merge" =>
        /\ \A k \in DOMAIN OwnKeys : k \in DOMAIN Merged /\ Merged[k] = OwnKeys[k]
        /\ EnvVarsCarriedOver
        /\ DefaultTimeout

\* C25: Provider.Merge(apiKey) returns an env in which, unless EnvVars
\* supplies the key in question, the auth token equals apiKey, the base URL
\* equals BaseURL and each of haiku/sonnet/opus present in Models sets its
\* default-model key; every EnvVars entry is carried over, and
\* API_TIMEOUT_MS is "3000000" exactly when EnvVars does not supply it.
C25_MergeEnvVarsWin ==
    lastSet.op = "Merge" =>
        /\ \A k \in DOMAIN OwnKeys \ DOMAIN lastSet.envVars :
              k \in DOMAIN Merged /\ Merged[k] = OwnKeys[k]
        /\ EnvVarsCarriedOver
        /\ DefaultTimeout

\* C25: Merge was given EnvVars with an entry under the auth-token key that
\* differs from apiKey, and a variable of the provider's own
C25_EnvVarsNameAuthToken ==
    /\ lastSet.op = "Merge"
    /\ "ANTHROPIC_AUTH_TOKEN" \in DOMAIN lastSet.envVars
    /\ JStr(lastSet.envVars["ANTHROPIC_AUTH_TOKEN"]) # lastSet.secret
    /\ "CUSTOM_VAR" \in DOMAIN Merged
    /\ DOMAIN lastSet.models = {"haiku", "sonnet", "opus"}


----------------------------------------------------------------------------
(* internal/cli/onboard.go : `cflip onboard` step by step (runOnboard,      *)
(* lines 72-147).  The wizard keeps the configuration it loaded in cfg and  *)
(* hands each choice to a TOMLManagerV2 call, which loads config.toml,      *)
(* changes what it loaded and saves it.                                     *)

\* categories := []string{"haiku", "sonnet", "opus"}
OnboardCategories == <<"haiku", "sonnet", "opus">>

\* the numbers typed at a model prompt; 0 stands for the empty line
MaxChoice == 2

\* the key typed at the prompt of configureAPIKeyProvider, never empty
OnboardKeys == {KeyLong}

\* isAlreadyConfigured
isAlreadyConfigured(c) ==
    \E n \in DOMAIN c.providers :
        /\ c.providers[n].auth.method = AuthMethodAPIKey
        /\ c.providers[n].auth.apiKey # <<>>

\* availableModels of configureActiveModels: the models of the provider that
\* the catalogue holds under the category, in slice order
availableModels(c, provider, category) ==
    SelectSeq(provider.models,
              LAMBDA id : id \in DOMAIN c.models /\ c.models[id].category = category)

\* TOMLManagerV2.SetActiveProvider and TOMLManagerV2.SetActiveModel on
\* config.toml: the outcomes a call may have, each [ok, file]
ManagerOutcomes(op, with, file, now) ==
    UNION {IF ~l.ok
           THEN {[ok |-> FALSE, file |-> l.file]}
           ELSE LET ch == ManagerChange(op, with, l.cfg, now)
                IN  IF ~ch.ok
                    THEN {[ok |-> FALSE, file |-> l.file]}
                    ELSE {[ok |-> r.ok, file |-> r.file] :
                              r \in SaveConfig(ch.cfg, l.file, now)} :
           l \in LoadConfig(file, now)}

\* TOMLManagerV2.UpdateSettings on config.toml: [ok, file]
UpdateSettings(file, settings, now) ==
    UNION {IF ~l.ok
           THEN {[ok |-> FALSE, file |-> l.file]}
           ELSE {[ok |-> r.ok, file |-> r.file] :
                     r \in SaveConfig([l.cfg EXCEPT !.settings = settings], l.file, now)} :
           l \in LoadConfig(file, now)}

InitOnboard ==
    /\ SwIdle
    /\ SaveIdle
    /\ SetIdle
    /\ cfg = NilCfg
    /\ cfgFile \in ActiveFiles
    /\ last = NoOp
    /\ steps = 0
    /\ ob = IdleOnboard

\* cfg, err := tomlManager.LoadConfig(); the wizard ends there on an error,
\* and when a key is configured and the user declines to reconfigure
ObLoadConfig(reconfigure) ==
    /\ ob.pc = "idle"
    /\ \E l \in LoadConfig(cfgFile, steps + 1) :
          /\ cfg' = l.cfg
          /\ cfgFile' = l.file
          /\ ob' = [ob EXCEPT !.pc = IF ~l.ok THEN "failed"
                                     ELSE IF isAlreadyConfigured(l.cfg) /\ ~reconfigure
                                     THEN "cancelled"
                                     ELSE "provider"]
    /\ steps' = steps + 1
    /\ UNCHANGED <<last, saveVars, setVars, swVars>>

\* chooseProvider, configureAPIKeyProvider or configureSubscriptionProvider,
\* then cfg.Providers[providerName] = provider
ObConfigureProvider(providerName, apiKey) ==
    /\ ob.pc = "provider"
    /\ providerName \in DOMAIN cfg.providers
    /\ cfg' = IF cfg.providers[providerName].auth.method = AuthMethodAPIKey
              THEN [cfg EXCEPT !.providers[providerName].auth.apiKey = apiKey]
              ELSE cfg
    /\ ob' = [ob EXCEPT !.pc = "models", !.providerName = providerName, !.i = 1]
    /\ UNCHANGED <<cfgFile, last, steps, saveVars, setVars, swVars>>

\* configureActiveModels: the early return for a subscription, or one
\* category of its loop with the number typed at the prompt
ObSelectModel(choice) ==
    /\ ob.pc = "models"
    /\ LET provider == cfg.providers[ob.providerName]
           category == OnboardCategories[ob.i]
           available == availableModels(cfg, provider, category)
           next == IF ob.i = Len(OnboardCategories)
                   THEN [ob EXCEPT !.pc = "settings"]
                   ELSE [ob EXCEPT !.i = @ + 1]
       IN  IF provider.auth.method = AuthMethodSubscription
           THEN /\ choice = 0
                /\ ob' = [ob EXCEPT !.pc = "settings"]
                /\ UNCHANGED <<cfgFile, steps>>
           ELSE IF choice = 0
           THEN /\ ob' = next
                /\ UNCHANGED <<cfgFile, steps>>
           ELSE /\ choice <= Len(available)
                /\ \E r \in ManagerOutcomes("SetActiveModel", <<category, available[choice]>>,
                                            cfgFile, steps + 1) :
                      /\ cfgFile' = r.file
                      /\ ob' = [next EXCEPT !.selected =
                                   IF r.ok THEN Put(@, category, available[choice]) ELSE @]
                /\ steps' = steps + 1
    /\ UNCHANGED <<cfg, last, saveVars, setVars, swVars>>

\* configureSettings: the answers go into cfg.Settings, then
\* tomlManager.UpdateSettings(*settings), whose error is only printed
ObConfigureSettings(secureStorage) ==
    /\ ob.pc = "settings"
    /\ LET settings == [cfg.settings EXCEPT !.secureStorage = secureStorage]
       IN  /\ cfg' = [cfg EXCEPT !.settings = settings]
           /\ \E r \in UpdateSettings(cfgFile, settings, steps + 1) : cfgFile' = r.file
    /\ ob' = [ob EXCEPT !.pc = "activate"]
    /\ steps' = steps + 1
    /\ UNCHANGED <<last, saveVars, setVars, swVars>>

\* tomlManager.SetActiveProvider(providerName)
ObSetActiveProvider ==
    /\ ob.pc = "activate"
    /\ \E r \in ManagerOutcomes("SetActiveProvider", <<ob.providerName>>, cfgFile, steps + 1) :
          /\ cfgFile' = r.file
          /\ ob' = [ob EXCEPT !.pc = IF r.ok THEN "save" ELSE "failed"]
    /\ steps' = steps + 1
    /\ UNCHANGED <<cfg, last, saveVars, setVars, swVars>>

\* tomlManager.SaveConfig(cfg)
ObSaveConfig ==
    /\ ob.pc = "save"
    /\ \E r \in SaveConfig(cfg, cfgFile, steps + 1) :
          /\ cfg' = r.cfg
          /\ cfgFile' = r.file
          /\ ob' = [ob EXCEPT !.pc = IF r.ok THEN "done" ELSE "failed"]
    /\ steps' = steps + 1
    /\ UNCHANGED <<last, saveVars, setVars, swVars>>

NextOnboard ==
    \/ \E reconfigure \in BOOLEAN : ObLoadConfig(reconfigure)
    \/ \E providerName \in ProviderArgs, apiKey \in OnboardKeys :
          ObConfigureProvider(providerName, apiKey)
    \/ \E choice \in 0..MaxChoice : ObSelectModel(choice)
    \/ \E secureStorage \in BOOLEAN : ObConfigureSettings(secureStorage)
    \/ ObSetActiveProvider
    \/ ObSaveConfig

SpecOnboard == InitOnboard /\ [][NextOnboard]_vars

\* C30: when the onboard wizard completes without error, the configuration
\* file's active provider is the provider chosen in the wizard and its model
\* mapping holds the models chosen there: the final SaveConfig of the
\* in-memory configuration does not overwrite what SetActiveModel,
\* UpdateSettings and SetActiveProvider persisted before it.
C30_WizardChoicesSaved ==
    ob.pc = "done" =>
        /\ Stored(cfgFile).active.provider = ob.providerName
        /\ \A category \in DOMAIN ob.selected :
              /\ category \in DOMAIN Stored(cfgFile).active.modelMapping
              /\ Stored(cfgFile).active.modelMapping[category] = ob.selected[category]
        /\ Stored(cfgFile).settings = cfg.settings

====
